---- MODULE Spec2Model ----
(***************************************************************************)
(* AceMagic S1 LCD/LED controller: the USB display protocol encoder        *)
(* (usb_manager.py), the lighting control packet and the connection        *)
(* session manager (coordinator.py).                                       *)
(*                                                                         *)
(* The specifications of this module:                                       *)
(*   SpecUsb     USBManager alone, packets as concrete byte sequences      *)
(*   SpecControl the lighting ControlState and the serial link             *)
(*   Spec        the coordinator's image session on the asyncio loop       *)
(*   FairSpec    Spec, with the event loop running the tasks that are ready *)
(***************************************************************************)
EXTENDS Integers, Sequences, FiniteSets, TLC

(***************************************************************************)
(* Program constants                                                       *)
(***************************************************************************)
\* usb_manager.py:84  chunk_size = 4096
chunk_size == 4096
\* const.py:31
SIGNATURE_CONTROL == 250
\* const.py:35,36
IMAGE_WIDTH == 320
IMAGE_HEIGHT == 170
\* const.py:41,42  Orientation.PORTRAIT / Orientation.LANDSCAPE
PORTRAIT == 2
LANDSCAPE == 1
\* const.py:80-83
DEFAULT_THEME == 1
DEFAULT_INTENSITY == 3
DEFAULT_SPEED == 3
DEFAULT_ORIENTATION == PORTRAIT
\* const.py:89-92
MIN_INTENSITY == 1
MAX_INTENSITY == 5
MIN_SPEED == 1
MAX_SPEED == 5

(***************************************************************************)
(* Bounds of the model                                                     *)
(***************************************************************************)
\* byte patterns tried for each bitmap length in SpecUsb: 0..MaxSeed
MaxSeed == 1
\* set requests (theme, intensity, speed) made by the caller in SpecControl
MaxSets == 3
\* requests made of the loaded entry: in SpecLife of either kind, in SpecUnload
\* theme selections (its update requests are bounded by MaxUpdates)
MaxLifeRequests == 1
\* update requests (set_image, sensor, text, orientation) made by the caller in Spec,
\* on top of the renders of start-up
MaxUpdates == 1

\* the largest width and height of the frames the codec is applied to
MaxSide == 2

\* requests made of the loaded entry in SpecNotify, of any kind
MaxNotifyRequests == 1

\* the number of calls of the text services and sensor callbacks
MaxTextCalls == 2

\* restarts of the host process in SpecRestart
MaxRestarts == 1

Byte == 0..255

(***************************************************************************)
(* USBManager: packet construction (pure)                                  *)
(***************************************************************************)
\* bytearray(8 + chunk_size); packet[0:8] = header; packet[8:8+len(chunk)] = chunk
Packet(header, chunk) ==
    [k \in 1..(8 + chunk_size) |->
        IF k <= 8 THEN header[k]
        ELSE IF k - 8 <= Len(chunk) THEN chunk[k - 8]
        ELSE 0]

\* send_orientation_packet: header [0x55, 0xa1, 0xf1, orientation, 0, 0, 0, 0]
OrientationPacket(o) == Packet(<<85, 161, 241, o, 0, 0, 0, 0>>, <<>>)

\* send_keepalive_packet: header [0x55, 0xa1, 0xf2, 0, 0, 0, 0, 0]
KeepalivePacket == Packet(<<85, 161, 242, 0, 0, 0, 0, 0>>, <<>>)

\* num_chunk = (-(-data_len // chunk_size)) - 1
NumChunkCount(data_len) == -((-data_len) \div chunk_size)
num_chunk(data_len) == (-((-data_len) \div chunk_size)) - 1

\* header[2]: 0xF0 first chunk, 0xF2 last chunk, 0xF1 middle chunk
FrameCodeLastTested(i, data_len) ==
    IF i = num_chunk(data_len) * chunk_size THEN 242
    ELSE IF i = 0 THEN 240
    ELSE 241
frame_code(i, data_len) ==
    IF i = 0 THEN 240
    ELSE IF i = num_chunk(data_len) * chunk_size THEN 242
    ELSE 241

\* header[3] = (i // chunk_size) + 1
ChunkNumberFromZero(i) == i \div chunk_size
chunk_number(i) == (i \div chunk_size) + 1

\* header[5] = ((i // chunk_size) % 16) * 0x10
CounterNoWrap(i) == (i \div chunk_size) * 16
counter_byte(i) == ((i \div chunk_size) % 16) * 16

\* header = [0x55, 0xa3, 0xF0, 0x01, 0x00, 0x00, 0x00, 0x10] with [2],[3],[5] set
chunk_header(i, data_len) ==
    <<85, 163, frame_code(i, data_len), chunk_number(i), 0, counter_byte(i), 0, 16>>

\* chunk = image_data[i:i+chunk_size]
ChunkOverlap(image, i) ==
    SubSeq(image, (IF i = 0 THEN 1 ELSE i), IF i + chunk_size < Len(image) THEN i + chunk_size ELSE Len(image))
chunk(image, i) ==
    SubSeq(image, i + 1, IF i + chunk_size < Len(image) THEN i + chunk_size ELSE Len(image))

\* the packet handed to send_packet for offset i
PacketUnpadded(image, i) == chunk_header(i, Len(image)) \o chunk(image, i)
image_packet(image, i) == Packet(chunk_header(i, Len(image)), chunk(image, i))

\* packet[0:8] = header raises ValueError unless every header value is a byte
header_fits(i, data_len) == \A k \in 1..8 : chunk_header(i, data_len)[k] \in Byte

(***************************************************************************)
(* SpecUsb: USBManager driven call by call, bytes on the wire               *)
(***************************************************************************)
VARIABLES
    um_connected,   \* USBManager._connected
    um_device,      \* USBManager._device is not None
    um_call,        \* the USBManager call in progress: "none", "image"
    um_image,       \* send_image_packet's argument image_data
    um_i,           \* send_image_packet's loop variable i
    um_wire,        \* packets given to interruptWrite by the current / latest call
    um_ret,         \* return value of the latest call: "none", "true", "false"
    um_last,        \* name of the latest call
    um_left_at      \* the value of i with which the latest send_image_packet call
                    \* that has returned left its loop

um_vars == <<um_connected, um_device, um_call, um_image, um_i, um_wire, um_ret, um_last,
            um_left_at>>

\* the part of it that only SpecUsb's calls use
um_call_vars == <<um_call, um_image, um_i, um_wire, um_ret, um_last, um_left_at>>

\* bitmap lengths tried: around the chunk boundaries of one, two and three chunks
\* (the device's own 108800-byte bitmap is sent chunk by chunk in Spec)
ImageLengths ==
    {0, 1, chunk_size - 1, chunk_size, chunk_size + 1, 2 * chunk_size - 1,
     2 * chunk_size, 2 * chunk_size + 1, 3 * chunk_size}

\* a byte pattern whose period (251) is no divisor of chunk_size, so that equal
\* offsets of different chunks carry different bytes
TestImage(len, seed) == [p \in 1..len |-> (((p - 1) % 251) + (3 * seed)) % 256]

UmInitIdle ==
    /\ um_connected = FALSE
    /\ um_device = FALSE
    /\ um_call = "none"
    /\ um_image = <<>>
    /\ um_i = 0
    /\ um_wire = <<>>
    /\ um_ret = "none"
    /\ um_last = "none"
    /\ um_left_at = 0

\* the caller's bitmap is drawn once per behaviour; every send_image_packet call
\* of the behaviour is given this bitmap
UmInit ==
    /\ um_connected = FALSE
    /\ um_device = FALSE
    /\ um_call = "none"
    /\ \E len \in ImageLengths, seed \in 0..MaxSeed : um_image = TestImage(len, seed)
    /\ um_i = 0
    /\ um_wire = <<>>
    /\ um_ret = "none"
    /\ um_last = "none"
    /\ um_left_at = 0

\* connect(): open the device and claim the interface, or fail
UmConnect ==
    /\ um_call = "none"
    /\ ~um_connected
    /\ \E found \in BOOLEAN :
        /\ um_device' = found
        /\ um_connected' = found
        /\ um_ret' = IF found THEN "true" ELSE "false"
    /\ um_last' = "connect"
    /\ um_wire' = <<>>
    /\ UNCHANGED <<um_call, um_image, um_i, um_left_at>>

\* send_orientation_packet(o) through send_packet
UmSendOrientation ==
    /\ um_call = "none"
    /\ \E o \in {LANDSCAPE, PORTRAIT}, ok \in BOOLEAN :
        IF ~um_connected \/ ~um_device
        THEN /\ um_wire' = <<>>
             /\ um_ret' = "false"
             /\ UNCHANGED um_connected
        ELSE IF ok
        THEN /\ um_wire' = <<OrientationPacket(o)>>
             /\ um_ret' = "true"
             /\ UNCHANGED um_connected
        ELSE /\ um_wire' = <<>>
             /\ um_ret' = "false"
             /\ um_connected' = FALSE
    /\ um_last' = "orientation"
    /\ UNCHANGED <<um_device, um_call, um_image, um_i, um_left_at>>

\* send_keepalive_packet() through send_packet
UmSendKeepalive ==
    /\ um_call = "none"
    /\ \E ok \in BOOLEAN :
        IF ~um_connected \/ ~um_device
        THEN /\ um_wire' = <<>>
             /\ um_ret' = "false"
             /\ UNCHANGED um_connected
        ELSE IF ok
        THEN /\ um_wire' = <<KeepalivePacket>>
             /\ um_ret' = "true"
             /\ UNCHANGED um_connected
        ELSE /\ um_wire' = <<>>
             /\ um_ret' = "false"
             /\ um_connected' = FALSE
    /\ um_last' = "keepalive"
    /\ UNCHANGED <<um_device, um_call, um_image, um_i, um_left_at>>

\* send_image_packet(image_data): the entry check and the loop set-up
UmImageBegin ==
    /\ um_call = "none"
    /\ um_i' = 0
    /\ um_wire' = <<>>
    /\ IF ~um_connected \/ ~um_device
       THEN um_call' = "none" /\ um_ret' = "false" /\ um_left_at' = 0
       ELSE um_call' = "image" /\ um_ret' = "none" /\ UNCHANGED um_left_at
    /\ um_last' = "image"
    /\ UNCHANGED <<um_connected, um_device, um_image>>

\* one iteration of for i in range(0, data_len, chunk_size)
UmImageChunk ==
    /\ um_call = "image"
    /\ um_i < Len(um_image)
    /\ IF ~header_fits(um_i, Len(um_image))
       THEN \* ValueError, caught by the except of send_image_packet
            /\ um_call' = "none"
            /\ um_ret' = "false"
            /\ um_left_at' = um_i
            /\ UNCHANGED <<um_connected, um_wire, um_i>>
       ELSE \E ok \in BOOLEAN :
            IF ok
            THEN /\ um_wire' = Append(um_wire, image_packet(um_image, um_i))
                 /\ um_i' = um_i + chunk_size
                 /\ UNCHANGED <<um_connected, um_call, um_ret, um_left_at>>
            ELSE /\ um_connected' = FALSE
                 /\ um_call' = "none"
                 /\ um_ret' = "false"
                 /\ um_left_at' = um_i
                 /\ UNCHANGED <<um_wire, um_i>>
    /\ UNCHANGED <<um_device, um_image, um_last>>

\* the loop is exhausted: return True
UmImageEnd ==
    /\ um_call = "image"
    /\ um_i >= Len(um_image)
    /\ um_call' = "none"
    /\ um_ret' = "true"
    /\ um_left_at' = um_i
    /\ UNCHANGED <<um_connected, um_device, um_image, um_i, um_wire, um_last>>


(***************************************************************************)
(* The asyncio event loop                                                  *)
(*                                                                         *)
(* One thread runs everything.  A task holds the loop until it reaches an  *)
(* await that really suspends: asyncio.sleep, serial_asyncio's             *)
(* open_serial_connection, StreamWriter.drain / wait_closed, awaiting      *)
(* another task.  Awaiting a coroutine of this repository whose body has   *)
(* no such await (every USBManager method: usb1's calls are blocking       *)
(* calls, the asyncio.sleep of usb_manager.py:115 is commented out) runs   *)
(* it to its end without giving up the loop.  Tasks made by                *)
(* asyncio.create_task start in creation order; callers (entity methods,   *)
(* service handlers, state-change callbacks) are callbacks of the same     *)
(* loop and run only while no task holds it.                               *)
(***************************************************************************)
VARIABLES
    ready,          \* tasks created and not yet started, oldest first
    waiting,        \* tasks suspended at an await, with their position
    running         \* the task holding the loop, or NoTask

loop_vars == <<ready, waiting, running>>

\* a DeviceBitmap in the session: its byte length and a token for its content
NoBitmap == [len |-> 0, px |-> 0]

\* a task: its number, its coroutine, its position, and for _send_image_packet
\* the argument and loop variable of send_image_packet
Task(n, k, at, img, off) == [id |-> n, kind |-> k, pc |-> at, image |-> img, i |-> off]

NoTask == Task(0, "none", "none", NoBitmap, 0)

\* a task gets its identity when it starts: a number no started task has (the
\* tasks not yet started are told apart by their place in the queue)
fresh_id ==
    LET used == {t.id : t \in waiting} \cup {running.id}
    IN  CHOOSE m \in 1..(Cardinality(used) + 1) :
            m \notin used /\ \A j \in 1..(m - 1) : j \in used

\* the tasks made by consecutive asyncio.create_task calls of one step
NewTasks(kinds) == [k \in 1..Len(kinds) |-> Task(0, kinds[k], "new", NoBitmap, 0)]

\* asyncio.create_task(coro): the task's first step is queued behind the others
create_task(k) == ready' = ready \o NewTasks(<<k>>)

LoopInit ==
    /\ ready = <<>>
    /\ waiting = {}
    /\ running = NoTask

LoopIdle == running = NoTask

Start(t, at) == Task(fresh_id, t.kind, at, t.image, t.i)

Suspend(t, at) == Task(t.id, t.kind, at, t.image, t.i)

(***************************************************************************)
(* The caller's requests and the change listeners (coordinator.py)         *)
(*                                                                         *)
(* Entities register a listener with add_update_listener; the setters call *)
(* async_notify_listeners(), which calls each listener in turn.            *)
(***************************************************************************)
VARIABLES
    called,         \* the request the caller made in the latest step: its
                    \* handler and argument (empty after a step of a task)
    notified        \* whether the latest step called async_notify_listeners()

note_vars == <<called, notified>>

NoteInit ==
    /\ called = <<>>
    /\ notified = FALSE

\* a step of a task or of the set-up: no request, no async_notify_listeners()
note_none ==
    /\ called' = <<>>
    /\ notified' = FALSE

(***************************************************************************)
(* ControlState and the serial link (coordinator.py)                       *)
(***************************************************************************)
VARIABLES
    theme,          \* coordinator._theme
    intensity,      \* coordinator._intensity
    speed,          \* coordinator._speed
    serial_writer,  \* coordinator._serial_writer is not None
    serial_wire,    \* the packet given to serial_writer.write by the latest step of a
                    \* control task (empty if that step wrote none)
    serial_io,      \* how the serial await that ended last came out: "ok", "failed"
    n_set,          \* number of set requests made by the caller
    last_set        \* what the latest set request did: "changed" the field,
                    \* found the "same" value, or was "rejected" by the entity

ctl_vars == <<theme, intensity, speed, serial_writer, serial_wire, serial_io, n_set, last_set>>

\* const.py THEME_OPTIONS
THEME_OPTIONS == [k \in 1..5 |-> <<"Rainbow", "Breathing", "Color Cycle", "Off", "Automatic">>[k]]

\* total = SIGNATURE_CONTROL + theme + intensity + speed; checksum = total & 0xFF
ChecksumNoMask(t, i, s) == SIGNATURE_CONTROL + t + i + s
control_checksum(t, i, s) == (SIGNATURE_CONTROL + t + i + s) % 256

\* data = bytes([SIGNATURE_CONTROL, theme, intensity, speed, checksum])
control_packet(t, i, s) == <<SIGNATURE_CONTROL, t, i, s, control_checksum(t, i, s)>>

\* self._serial_writer.write(data), data built from the state as it is now
serial_write == serial_wire' = <<control_packet(theme, intensity, speed)>>

CtlInit ==
    /\ theme = DEFAULT_THEME
    /\ intensity = DEFAULT_INTENSITY
    /\ speed = DEFAULT_SPEED
    /\ serial_writer = FALSE
    /\ serial_wire = <<>>
    /\ serial_io = "none"
    /\ n_set = 0
    /\ last_set = "none"

\* the setters' guard: if self._theme != value
SetterAlways(old, value) == TRUE
setter_guard(old, value) == old # value

\* theme.setter / intensity.setter / speed.setter: store, notify, create the task
\* (field' is given by the caller action)
setter_effect(old, value) ==
    /\ last_set' = IF setter_guard(old, value) THEN "changed" ELSE "same"
    /\ notified' = setter_guard(old, value)   \* self.async_notify_listeners()
    /\ IF setter_guard(old, value)
       THEN create_task("control")
       ELSE UNCHANGED <<ready>>

\* number.py: if MIN_INTENSITY <= int_value <= MAX_INTENSITY (and the same for speed)
InRangeUnchecked(lo, hi, int_value) == TRUE
in_range(lo, hi, int_value) == lo <= int_value /\ int_value <= hi

\* select.py UARTTimeSenderThemeSelect.async_select_option(option)
SelectTheme ==
    /\ LoopIdle
    /\ n_set < MaxSets
    /\ n_set' = n_set + 1
    /\ \E option \in {THEME_OPTIONS[k] : k \in 1..5} \cup {"Unknown"} :
        IF \E key \in 1..5 : THEME_OPTIONS[key] = option
        THEN LET key == CHOOSE key \in 1..5 : THEME_OPTIONS[key] = option
             IN  /\ theme' = key
                 /\ setter_effect(theme, key)
                 /\ called' = <<"theme", key>>
        ELSE /\ last_set' = "rejected"
             /\ called' = <<"async_select_option", option>>
             /\ notified' = FALSE
             /\ UNCHANGED <<theme, ready>>
    /\ UNCHANGED <<intensity, speed, serial_writer, serial_wire, serial_io, waiting, running>>

\* number.py UARTTimeSenderIntensityNumber.async_set_native_value(value)
SetIntensity ==
    /\ LoopIdle
    /\ n_set < MaxSets
    /\ n_set' = n_set + 1
    /\ \E int_value \in (MIN_INTENSITY - 1)..(MAX_INTENSITY + 1) :
        IF in_range(MIN_INTENSITY, MAX_INTENSITY, int_value)
        THEN /\ intensity' = int_value
             /\ setter_effect(intensity, int_value)
             /\ called' = <<"intensity", int_value>>
        ELSE /\ last_set' = "rejected"
             /\ called' = <<"async_set_native_value", int_value>>
             /\ notified' = FALSE
             /\ UNCHANGED <<intensity, ready>>
    /\ UNCHANGED <<theme, speed, serial_writer, serial_wire, serial_io, waiting, running>>

\* number.py UARTTimeSenderSpeedNumber.async_set_native_value(value)
SetSpeed ==
    /\ LoopIdle
    /\ n_set < MaxSets
    /\ n_set' = n_set + 1
    /\ \E int_value \in (MIN_SPEED - 1)..(MAX_SPEED + 1) :
        IF in_range(MIN_SPEED, MAX_SPEED, int_value)
        THEN /\ speed' = int_value
             /\ setter_effect(speed, int_value)
             /\ called' = <<"speed", int_value>>
        ELSE /\ last_set' = "rejected"
             /\ called' = <<"async_set_native_value", int_value>>
             /\ notified' = FALSE
             /\ UNCHANGED <<speed, ready>>
    /\ UNCHANGED <<theme, intensity, serial_writer, serial_wire, serial_io, waiting, running>>

\* the writer after write / drain returned or raised:
\* except Exception: self._serial_writer = None
WriterKeptOnError(ok) == serial_writer
writer_after_write(ok) == IF ok THEN serial_writer ELSE FALSE

\* _send_control_packet, from the task's start to its first suspension:
\* without a writer it awaits open_serial_connection, with one it writes the
\* packet and awaits drain
CtlStart ==
    /\ LoopIdle
    /\ ready # <<>>
    /\ Head(ready).kind = "control"
    /\ ready' = Tail(ready)
    /\ IF ~serial_writer
       THEN /\ waiting' = waiting \cup {Start(Head(ready), "open")}
            /\ serial_wire' = <<>>
       ELSE /\ serial_write
            /\ waiting' = waiting \cup {Start(Head(ready), "drain")}
    /\ UNCHANGED <<theme, intensity, speed, serial_writer, serial_io, n_set, last_set,
                   running>>

\* _async_setup_serial_connection after open_serial_connection returned or raised:
\* on success the writer is stored and _send_control_packet is awaited from
\* inside the set-up (it writes the packet and awaits drain); on failure the
\* writer is set to None and the caller's "if self._serial_writer" ends the task
CtlOpened ==
    /\ LoopIdle
    /\ \E t \in waiting, ok \in BOOLEAN :
        /\ t.kind = "control" /\ t.pc = "open"
        /\ serial_io' = IF ok THEN "ok" ELSE "failed"
        /\ IF ok
           THEN /\ serial_writer' = TRUE
                /\ serial_write
                /\ waiting' = (waiting \ {t}) \cup {Suspend(t, "drain_in_setup")}
           ELSE /\ serial_writer' = FALSE
                /\ waiting' = waiting \ {t}
                /\ serial_wire' = <<>>
    /\ UNCHANGED <<theme, intensity, speed, n_set, last_set,
                   ready, running>>

\* the drain of the packet written from inside the set-up returned or raised;
\* the set-up returns and _send_control_packet goes on to its own
\* "if self._serial_writer": write the packet and await drain
CtlDrainedInSetup ==
    /\ LoopIdle
    /\ \E t \in waiting, ok \in BOOLEAN :
        /\ t.kind = "control" /\ t.pc = "drain_in_setup"
        /\ serial_io' = IF ok THEN "ok" ELSE "failed"
        /\ LET writer == writer_after_write(ok)
           IN  /\ serial_writer' = writer
               /\ IF writer
                  THEN /\ serial_write
                       /\ waiting' = (waiting \ {t}) \cup {Suspend(t, "drain")}
                  ELSE /\ waiting' = waiting \ {t}
                       /\ serial_wire' = <<>>
    /\ UNCHANGED <<theme, intensity, speed, n_set, last_set,
                   ready, running>>

\* drain returned (the task ends) or raised (the writer is set to None)
CtlDrained ==
    /\ LoopIdle
    /\ \E t \in waiting, ok \in BOOLEAN :
        /\ t.kind = "control" /\ t.pc = "drain"
        /\ serial_io' = IF ok THEN "ok" ELSE "failed"
        /\ serial_writer' = writer_after_write(ok)
        /\ waiting' = waiting \ {t}
        /\ serial_wire' = <<>>
    /\ UNCHANGED <<theme, intensity, speed, n_set, last_set,
                   ready, running>>

(***************************************************************************)
(* The saved configuration (text_config.py): text_config.json, DisplayConfig *)
(***************************************************************************)
VARIABLES
    config_file,        \* text_config.json, its display_config part: <<>> no file,
                        \* <<"corrupt">> not JSON, <<"display_config">> without
                        \* the key last_orientation, <<"display_config", n>>
    last_orientation,   \* text_renderer._display_config.last_orientation
    writable,           \* whether open(self._config_path, 'w') succeeds
    n_restart           \* number of restarts of the host process

persist_vars == <<config_file, last_orientation, writable, n_restart>>

\* the values of last_orientation found in a file
PersistedCodes == 1..3

ConfigFiles ==
    {<<>>, <<"corrupt">>, <<"display_config">>} \cup {<<"display_config", n>> : n \in PersistedCodes}

\* DisplayConfig.to_dict() written by json.dump
to_dict(orientation_value) == <<"display_config", orientation_value>>

\* DisplayConfig.from_dict(data): data.get("last_orientation", Orientation.LANDSCAPE.value)
from_dict(data) == IF Len(data) > 1 THEN data[2] ELSE LANDSCAPE

\* _load_configuration() on a new TextRenderer: without a file, or with one
\* json.load raises on, _display_config stays DisplayConfig()
load_configuration(file) ==
    IF file = <<>> \/ file = <<"corrupt">> THEN LANDSCAPE ELSE from_dict(file)

\* _save_configuration(): the file is written with the configuration as the
\* call has left it; an exception of open or json.dump is logged
SaveNever(file, can_write, orientation_value) == file
save_configuration(file, can_write, orientation_value) ==
    IF can_write THEN to_dict(orientation_value) ELSE file

\* a call that ends in _save_configuration() without changing last_orientation
saved == /\ config_file' = save_configuration(config_file, writable, last_orientation)
         /\ UNCHANGED <<last_orientation, writable, n_restart>>

\* a call that does not reach _save_configuration()
no_save == UNCHANGED persist_vars

\* text_renderer.set_orientation(orientation)
set_orientation(value) ==
    /\ last_orientation' = value
    /\ config_file' = save_configuration(config_file, writable, value)
    /\ UNCHANGED <<writable, n_restart>>

\* UARTTimeSenderCoordinator.__init__: the saved orientation if it is one of
\* the two codes, else DEFAULT_ORIENTATION
InitialOrientationDefault(saved_orientation) == DEFAULT_ORIENTATION
initial_orientation(saved_orientation) ==
    IF saved_orientation \in {PORTRAIT, LANDSCAPE} THEN saved_orientation ELSE DEFAULT_ORIENTATION

\* the file a session that ran before has written, read by this one
PersistInit ==
    /\ config_file \in {to_dict(PORTRAIT), to_dict(LANDSCAPE)}
    /\ last_orientation = load_configuration(config_file)
    /\ writable = TRUE
    /\ n_restart = 0

(***************************************************************************)
(* The image session (coordinator.py): DeviceBitmap, flags, USB tasks      *)
(***************************************************************************)
VARIABLES
    orientation,            \* coordinator._orientation
    scene,                  \* what text_renderer draws: elements and sensor values
    image_data,             \* coordinator._image_data
    image_update_pending,   \* coordinator._image_update_pending
    image_needs_update,     \* coordinator._image_needs_update
    is_sending_image,       \* coordinator._is_sending_image
    keepalive_task,         \* coordinator._keepalive_task is not None
    usb_wire,               \* packets given to interruptWrite during the image
                            \* transmission in flight, in order (empty outside one)
    usb_cmd,                \* the latest step of a USB task: the coroutine, then
                            \* what it asked of the transport, in order ("connect",
                            \* "keepalive", "orientation" and its code, "chunk");
                            \* after a request of the caller the orientation
                            \* setter, or nothing for the other requests
    device_image,           \* the bitmap the device last received in full
    setup_pc,               \* progress of async_setup_entry
    n_upd,                  \* number of update requests made by the caller
    quiet                   \* the caller has made its last request and, from it on,
                            \* USB connects and writes succeed

\* the orientation code of the latest change of orientation that no orientation
\* packet has yet carried to the device; 0 when the device has been told
VARIABLE orientation_owed

sess_vars == <<orientation, scene, image_data, image_update_pending, image_needs_update,
               is_sending_image, keepalive_task, usb_wire, usb_cmd, device_image,
               setup_pc, n_upd, quiet>>

\* what there is to draw: 0 nothing (a black frame), 1 text with sensor values
Scenes == {0, 1}

\* const.py get_display_size(orientation)
DisplaySizeUnequal(o) == IF o = LANDSCAPE THEN <<320, 170>> ELSE <<170, 240>>
get_display_size(o) == IF o = LANDSCAPE THEN <<320, 170>> ELSE <<170, 320>>

display_width == get_display_size(orientation)[1]
display_height == get_display_size(orientation)[2]

\* image_data setter: expected_size = self.display_width * self.display_height * 2
expected_size == display_width * display_height * 2

\* image_data setter: len(value) == expected_size
AnySizeAccepted(value) == TRUE
size_accepted(value) == value.len = expected_size

\* image_data setter: value != self._image_data
AnyContentAccepted(value) == TRUE
content_differs(value) == value # image_data

\* create_default_image(): black_pixel * (IMAGE_WIDTH * IMAGE_HEIGHT)
create_default_image == [len |-> 2 * (IMAGE_WIDTH * IMAGE_HEIGHT), px |-> 0]

\* pil_image_to_rgb565(img, width, height, orientation) of the frame rendered for
\* scene sc: two bytes per pixel, content fixed by the scan order and the frame
pil_image_to_rgb565(sc, width, height, o) ==
    [len |-> width * height * 2, px |-> IF sc = 0 THEN 0 ELSE 2 * sc + (o - 1)]

\* bitmaps a caller hands to the image_data setter (fill_image, set_pixel,
\* create_test_pattern, or any other caller): right or wrong length, two contents
CallerBitmaps ==
    {[len |-> l, px |-> c] : l \in {108800, 108798}, c \in {0, 100}}

\* the outcomes of a USB connect or write that the environment may produce
UsbOutcomes == IF quiet THEN {TRUE} ELSE BOOLEAN

\* symbolic packets: the 8 header bytes, then n bytes of bitmap px from offset
\* from, then pad zero bytes
WirePacket(header, px, from, n) ==
    [header |-> header, px |-> px, from |-> from, n |-> n, pad |-> chunk_size - n]

wire_orientation(o) == WirePacket(<<85, 161, 241, o, 0, 0, 0, 0>>, 0, 0, 0)
wire_keepalive == WirePacket(<<85, 161, 242, 0, 0, 0, 0, 0>>, 0, 0, 0)
WireChunkFull(image, i) ==
    WirePacket(chunk_header(i, image.len), image.px, i, chunk_size)
wire_chunk(image, i) ==
    WirePacket(chunk_header(i, image.len), image.px, i,
               IF i + chunk_size < image.len THEN chunk_size ELSE image.len - i)

\* what the device holds after the packets of wire: the bitmap whose chunks they
\* are, if they are all the chunks of one bitmap, in order and nothing else
received(wire) ==
    IF /\ wire # <<>>
       /\ \A k \in 1..Len(wire) :
            /\ wire[k].header[2] = 163
            /\ wire[k].header[4] = k
            /\ wire[k].px = wire[1].px
            /\ wire[k].from = (k - 1) * chunk_size
            /\ k < Len(wire) => wire[k].n = chunk_size
       /\ wire[1].header[3] = 240
       /\ Len(wire) > 1 => wire[Len(wire)].header[3] = 242
    THEN [len |-> wire[Len(wire)].from + wire[Len(wire)].n, px |-> wire[1].px]
    ELSE device_image

\* tasks inside the for loop of send_image_packet
InFlight == {t \in waiting \cup {running} : t.kind = "image" /\ t.pc = "chunks"}

\* a packet of another task falls behind the chunks of a transmission that is
\* still going on
wire_other(p) ==
    usb_wire' = IF InFlight # {} THEN Append(usb_wire, p) ELSE usb_wire

\* a step that writes no packet
wire_none == UNCHANGED usb_wire

\* whether send_packet gives up the loop: its body has no await, and the
\* asyncio.sleep between chunks (usb_manager.py:115) is commented out
SendPacketYields == TRUE
send_packet_yields == FALSE

\* finally: self._is_sending_image = False
FlagResetOnSuccessOnly(success) == ~success
flag_after_send(success) == FALSE

\* if success: self._image_update_pending = False (else it is left as it is)
PendingClearedAlways(success) == FALSE
pending_after_send(success) == IF success THEN FALSE ELSE image_update_pending

SessInit ==
    /\ orientation = initial_orientation(last_orientation)
    /\ scene = 0
    /\ image_data = create_default_image
    /\ image_update_pending = FALSE
    /\ image_needs_update = TRUE
    /\ is_sending_image = FALSE
    /\ keepalive_task = FALSE
    /\ usb_wire = <<>>
    /\ usb_cmd = <<>>
    /\ device_image = NoBitmap
    /\ orientation_owed = 0
    /\ setup_pc = "new"
    /\ n_upd = 0
    /\ quiet = FALSE

\* the create_task of _update_display_image: if not self._is_sending_image
ImageTaskIfBusy == IF is_sending_image THEN <<"image">> ELSE <<>>
image_task_if_free == IF ~is_sending_image THEN <<"image">> ELSE <<>>

\* _update_display_image() for orientation o and scene sc, after the creates
\* `before` of the same step
update_display_image(o, sc, before) ==
    /\ image_data' = pil_image_to_rgb565(sc, get_display_size(o)[1], get_display_size(o)[2], o)
    /\ image_update_pending' = TRUE
    /\ image_needs_update' = FALSE
    /\ ready' = ready \o NewTasks(before \o image_task_if_free)

\* a caller request: counted, and possibly the caller's last
Request ==
    /\ LoopIdle
    /\ ~quiet
    /\ n_upd < MaxUpdates
    /\ n_upd' = n_upd + 1

\* image_data setter (set_image): stored only with the expected length and a
\* content other than the stored one
SetImage ==
    /\ Request
    /\ usb_cmd' = <<>>
    /\ \E value \in CallerBitmaps :
        /\ called' = <<"image_data", value>>
        /\ IF size_accepted(value) /\ content_differs(value)
           THEN /\ image_data' = value
                /\ image_update_pending' = TRUE
                /\ notified' = TRUE
                /\ create_task("image")
                /\ quiet' \in BOOLEAN
           ELSE /\ notified' = FALSE
                /\ UNCHANGED <<image_data, image_update_pending, ready, quiet>>
    /\ UNCHANGED <<orientation, scene, image_needs_update, is_sending_image, keepalive_task,
                   usb_wire, device_image, setup_pc, waiting, running,
                   um_connected, um_device>>

\* update_sensor_state(entity_id, state): record the value and re-render
UpdateSensorState ==
    /\ Request
    /\ usb_cmd' = <<>>
    /\ notified' = FALSE
    /\ \E sc \in Scenes :
        /\ called' = <<"update_sensor_state", sc>>
        /\ scene' = sc
        /\ update_display_image(orientation, sc, <<>>)
    /\ quiet' \in BOOLEAN
    /\ UNCHANGED <<orientation, is_sending_image, keepalive_task, usb_wire, device_image,
                   setup_pc, waiting, running, um_connected, um_device>>

\* services add_text / update_text / remove_text / clear_all_text: the element
\* collection changes, _image_needs_update = True, _update_display_image()
TextElementsChanged ==
    /\ Request
    /\ usb_cmd' = <<>>
    /\ notified' = FALSE
    /\ \E sc \in Scenes :
        /\ called' = <<"text_service", sc>>
        /\ saved
        /\ UNCHANGED orientation_owed
        /\ scene' = sc
        /\ update_display_image(orientation, sc, <<>>)
    /\ quiet' \in BOOLEAN
    /\ UNCHANGED <<orientation, is_sending_image, keepalive_task, usb_wire, device_image,
                   setup_pc, waiting, running, um_connected, um_device>>

\* orientation setter, from UARTTimeSenderOrientationSelect.async_select_option
SetOrientation ==
    /\ Request
    /\ usb_cmd' = <<"orientation.setter">>
    /\ setup_pc \in {"sent", "done"}     \* the select entity exists
    /\ \E value \in {PORTRAIT, LANDSCAPE} :
        /\ called' = <<"orientation", value>>
        /\ notified' = (orientation # value)     \* self.async_notify_listeners()
        /\ IF orientation # value
           THEN /\ orientation' = value
                /\ orientation_owed' = value
                /\ set_orientation(value)
                /\ update_display_image(value, scene, <<"orientation">>)
                /\ quiet' \in BOOLEAN
           ELSE /\ no_save
                /\ UNCHANGED <<orientation, orientation_owed, image_data, image_update_pending,
                               image_needs_update, ready, quiet>>
    /\ UNCHANGED <<scene, is_sending_image, keepalive_task, usb_wire, device_image,
                   setup_pc, waiting, running, um_connected, um_device>>

\* _async_update_data, run by async_refresh at start-up and every 10 seconds:
\* if self._image_needs_update: self._update_display_image()
RefreshData ==
    /\ LoopIdle
    /\ usb_cmd' = <<>>
    /\ ~quiet \/ setup_pc # "new"
    /\ setup_pc' = IF setup_pc = "new" THEN "refreshed" ELSE setup_pc
    /\ IF image_needs_update
       THEN update_display_image(orientation, scene, <<>>)
       ELSE UNCHANGED <<image_data, image_update_pending, image_needs_update, ready>>
    /\ UNCHANGED <<orientation, scene, is_sending_image, keepalive_task, usb_wire,
                   device_image, n_upd, quiet, waiting, running, um_connected, um_device>>

\* the rest of async_config_entry_first_refresh: _initialize_sensor_states()
\* (values read from the host, re-render), then _image_update_pending = True and
\* create_task(_send_image_packet()); and the second _initialize_sensor_states()
\* of async_setup_entry
StartupSend ==
    /\ LoopIdle
    /\ usb_cmd' = <<>>
    /\ ~quiet
    /\ setup_pc \in {"refreshed", "sent"}
    /\ setup_pc' = IF setup_pc = "refreshed" THEN "sent" ELSE "done"
    /\ \E sc \in Scenes :
        /\ scene' = sc
        /\ update_display_image(orientation, sc,
                                IF setup_pc = "refreshed" THEN <<"image">> ELSE <<>>)
    /\ UNCHANGED <<orientation, is_sending_image, keepalive_task, usb_wire, device_image,
                   n_upd, quiet, waiting, running, um_connected, um_device>>

\* _send_image_packet_internal: if not self._image_update_pending: return
NothingPendingNever == FALSE
nothing_pending == ~image_update_pending

\* _async_setup_usb_connection(): connect(), and on success the keepalive task is
\* created unless one was created before
usb_setup_tasks(ok) == IF ok /\ ~keepalive_task THEN <<"keepalive">> ELSE <<>>
usb_setup(ok) ==
    /\ um_connected' = (um_connected \/ ok)
    /\ um_device' = ok
    /\ keepalive_task' = (keepalive_task \/ ok)

\* _send_image_packet up to the for loop of send_image_packet: the in-flight
\* check, the flag, the pending check, the lazy connect
ImgStart ==
    /\ LoopIdle
    /\ usb_cmd' = IF ~is_sending_image /\ image_update_pending /\ ~um_connected
                  THEN <<"_send_image_packet", "connect">>
                  ELSE <<"_send_image_packet">>
    /\ ready # <<>>
    /\ Head(ready).kind = "image"
    /\ IF is_sending_image
       THEN \* "Image sending already in progress, skipping"
            /\ ready' = Tail(ready)
            /\ UNCHANGED <<is_sending_image, image_update_pending, keepalive_task, usb_wire,
                           running, um_connected, um_device>>
       ELSE IF nothing_pending
       THEN \* the flag is set, "No image update pending", the flag is reset
            /\ ready' = Tail(ready)
            /\ is_sending_image' = flag_after_send(FALSE)
            /\ UNCHANGED <<image_update_pending, keepalive_task, usb_wire, running,
                           um_connected, um_device>>
       ELSE IF um_connected
       THEN IF um_device
            THEN /\ ready' = Tail(ready)
                 /\ is_sending_image' = TRUE
                 /\ running' = Task(fresh_id, "image", "chunks", image_data, 0)
                 /\ usb_wire' = <<>>
                 /\ UNCHANGED <<image_update_pending, keepalive_task, um_connected, um_device>>
            ELSE \* send_image_packet returns False at once
                 /\ ready' = Tail(ready)
                 /\ is_sending_image' = flag_after_send(FALSE)
                 /\ image_update_pending' = pending_after_send(FALSE)
                 /\ UNCHANGED <<keepalive_task, usb_wire, running, um_connected, um_device>>
       ELSE \E ok \in UsbOutcomes :
            /\ usb_setup(ok)
            /\ ready' = Tail(ready) \o NewTasks(usb_setup_tasks(ok))
            /\ IF ok
               THEN /\ is_sending_image' = TRUE
                    /\ running' = Task(fresh_id, "image", "chunks", image_data, 0)
                    /\ usb_wire' = <<>>
                    /\ UNCHANGED image_update_pending
               ELSE \* "USB not connected, cannot send image"
                    /\ is_sending_image' = flag_after_send(FALSE)
                    /\ image_update_pending' = pending_after_send(FALSE)
                    /\ UNCHANGED <<usb_wire, running>>
    /\ UNCHANGED <<orientation, scene, image_data, image_needs_update,
                   device_image, setup_pc, n_upd, quiet, waiting>>

\* one iteration of the for loop of send_image_packet, run by the task that holds
\* the loop (or, were send_packet to give up the loop, by the suspended sender)
ImgChunk ==
    \E t \in InFlight, ok \in UsbOutcomes :
        /\ running = t \/ (LoopIdle /\ t \in waiting)
        /\ usb_cmd' = IF um_connected /\ um_device /\ header_fits(t.i, t.image.len)
                      THEN <<"_send_image_packet", "chunk">>
                      ELSE <<"_send_image_packet">>
        /\ t.i < t.image.len
        /\ IF ok /\ um_connected /\ um_device /\ header_fits(t.i, t.image.len)
           THEN /\ usb_wire' = Append(usb_wire, wire_chunk(t.image, t.i))
                /\ IF send_packet_yields
                   THEN /\ running' = NoTask
                        /\ waiting' = (waiting \ {t}) \cup
                                          {Task(t.id, "image", "chunks", t.image, t.i + chunk_size)}
                   ELSE /\ running' = Task(t.id, "image", "chunks", t.image, t.i + chunk_size)
                        /\ waiting' = waiting \ {t}
                /\ UNCHANGED <<um_connected, is_sending_image, image_update_pending>>
           ELSE \* send_packet fails and marks the transport disconnected (or the
                \* header raises): send_image_packet returns False, the flag is reset
                /\ um_connected' = IF header_fits(t.i, t.image.len) THEN FALSE ELSE um_connected
                /\ running' = NoTask
                /\ waiting' = waiting \ {t}
                /\ is_sending_image' = flag_after_send(FALSE)
                /\ image_update_pending' = pending_after_send(FALSE)
                /\ usb_wire' = <<>>
        /\ UNCHANGED <<orientation, scene, image_data,
                       image_needs_update, keepalive_task, device_image, setup_pc, n_upd,
                       quiet, ready, um_device>>

\* the for loop is exhausted: send_image_packet returns True,
\* _image_update_pending = False, and the flag is reset
ImgEnd ==
    \E t \in InFlight :
        /\ running = t \/ (LoopIdle /\ t \in waiting)
        /\ usb_cmd' = <<"_send_image_packet">>
        /\ t.i >= t.image.len
        /\ image_update_pending' = pending_after_send(TRUE)
        /\ is_sending_image' = flag_after_send(TRUE)
        /\ device_image' = received(usb_wire)
        /\ usb_wire' = <<>>
        /\ running' = NoTask
        /\ waiting' = waiting \ {t}
        /\ UNCHANGED <<orientation, scene, image_data, image_needs_update, keepalive_task,
                       setup_pc, n_upd, quiet, ready, um_connected, um_device>>

\* byte 3 of the header of send_orientation_packet(orientation), as it is noted
\* in usb_cmd
orientation_code(o) == IF wire_orientation(o).header[4] = 1 THEN "0x01" ELSE "0x02"

\* what is owed to the device once a packet with the code o has been written
told(o) == IF orientation_owed = o THEN 0 ELSE orientation_owed

\* _send_orientation_packet: the lazy connect, then the packet with the
\* orientation current at that moment
OrientationTask ==
    /\ LoopIdle
    /\ ready # <<>>
    /\ Head(ready).kind = "orientation"
    /\ \E ok \in UsbOutcomes, sent \in UsbOutcomes :
        LET connected == um_connected \/ ok
            device == IF um_connected THEN um_device ELSE ok
        IN  /\ IF um_connected
               THEN /\ ready' = Tail(ready)
                    /\ UNCHANGED <<keepalive_task>>
               ELSE /\ ready' = Tail(ready) \o NewTasks(usb_setup_tasks(ok))
                    /\ keepalive_task' = (keepalive_task \/ ok)
            /\ um_device' = device
            /\ usb_cmd' = <<"_send_orientation_packet">>
                              \o (IF um_connected THEN <<>> ELSE <<"connect">>)
                              \o (IF connected /\ device
                                  THEN <<"orientation", orientation_code(orientation)>>
                                  ELSE <<>>)
            /\ IF connected /\ device
               THEN IF sent
                    THEN /\ wire_other(wire_orientation(orientation))
                         /\ orientation_owed' = told(orientation)
                         /\ um_connected' = TRUE
                    ELSE /\ um_connected' = FALSE
                         /\ wire_none
                         /\ UNCHANGED orientation_owed
               ELSE /\ um_connected' = connected
                    /\ wire_none
                    /\ UNCHANGED orientation_owed
    /\ UNCHANGED <<orientation, scene, image_data, image_update_pending, image_needs_update,
                   is_sending_image, device_image, setup_pc, n_upd, quiet, waiting, running>>

\* _keepalive_loop starts: it runs to its first await asyncio.sleep(1)
KeepaliveStart ==
    /\ LoopIdle
    /\ ready # <<>>
    /\ Head(ready).kind = "keepalive"
    /\ Head(ready).pc = "new"
    /\ ready' = Tail(ready)
    /\ waiting' = waiting \cup {Start(Head(ready), "sleep")}
    /\ usb_cmd' = <<>>
    /\ UNCHANGED <<orientation, scene, image_data, image_update_pending, image_needs_update,
                   is_sending_image, keepalive_task, usb_wire, device_image, setup_pc,
                   n_upd, quiet, running, um_connected, um_device>>

\* while True, with no break but the one under except CancelledError: whatever
\* the send returned, the task goes back to await asyncio.sleep(1)
KeepaliveEndsOnFailure(t, sent) == IF sent THEN {Suspend(t, "sleep")} ELSE {}
keepalive_after_tick(t, sent) == {Suspend(t, "sleep")}

\* whether a tick connects a transport that is not connected: the send is under
\* `if self._usb_manager.is_connected`, with no else and no call of
\* _async_setup_usb_connection
KeepaliveConnectsLazily == TRUE
keepalive_connects == FALSE

\* a tick of _keepalive_loop: the sleep is over, a keepalive packet is sent if
\* the transport is connected, and the loop sleeps again
KeepaliveTick ==
    /\ LoopIdle
    /\ \E t \in waiting, sent \in UsbOutcomes,
          ok \in (IF keepalive_connects THEN UsbOutcomes ELSE {FALSE}) :
        LET lazy == keepalive_connects /\ ~um_connected
            connected == IF lazy THEN ok ELSE um_connected
            device == IF lazy THEN ok ELSE um_device
        IN  /\ t.kind = "keepalive" /\ t.pc = "sleep"
            /\ usb_cmd' = <<"_keepalive_loop">>
                              \o (IF lazy THEN <<"connect">> ELSE <<>>)
                              \o (IF connected /\ device THEN <<"keepalive">> ELSE <<>>)
            /\ waiting' = (waiting \ {t})
                              \cup keepalive_after_tick(t, sent \/ ~(connected /\ device))
            /\ um_device' = device
            /\ IF connected /\ device
               THEN IF sent
                    THEN wire_other(wire_keepalive) /\ um_connected' = TRUE
                    ELSE um_connected' = FALSE /\ wire_none
               ELSE um_connected' = connected /\ wire_none
    /\ UNCHANGED <<orientation, scene, image_data, image_update_pending, image_needs_update,
                   is_sending_image, keepalive_task, device_image, setup_pc, n_upd, quiet,
                   ready, running>>

(***************************************************************************)
(* Teardown (coordinator.async_shutdown, USBManager.disconnect) and the    *)
(* exception path of the keepalive loop                                    *)
(***************************************************************************)
VARIABLES
    shutdown_pc,    \* the entry and its async_shutdown: "setup" (async_setup_entry
                    \* has not returned), "no" (loaded, async_shutdown not
                    \* called), "cancel" (awaiting the keepalive task), "close"
                    \* (awaiting wait_closed), "done"
    teardown        \* the teardown steps async_shutdown has carried out, in order

life_vars == <<shutdown_pc, teardown>>

LifeInit ==
    /\ shutdown_pc = "setup"
    /\ teardown = <<>>

\* async_setup_entry returns True: the tasks it created ran while it awaited
\* async_forward_entry_setups and, after its last call, before anything else is
\* asked of the loaded entry
EntryLoaded ==
    /\ LoopIdle
    /\ shutdown_pc = "setup"
    /\ setup_pc = "done"
    /\ ready = <<>>
    /\ shutdown_pc' = "no"
    /\ UNCHANGED <<sess_vars, ctl_vars, teardown, ready, waiting, running, um_vars>>

\* a tick in which something other than CancelledError is raised:
\* except Exception: log, await asyncio.sleep(5)
KeepaliveRaise ==
    /\ LoopIdle
    /\ \E t \in waiting :
        /\ t.kind = "keepalive" /\ t.pc = "sleep"
        /\ waiting' = (waiting \ {t}) \cup {Suspend(t, "backoff")}
    /\ usb_cmd' = <<"_keepalive_loop", "raised">>
    /\ wire_none
    /\ UNCHANGED <<orientation, scene, image_data, image_update_pending, image_needs_update,
                   is_sending_image, keepalive_task, device_image, setup_pc, n_upd, quiet,
                   ready, running, um_connected, um_device>>

\* the sleep(5) of the handler is over: while True goes round to sleep(1)
KeepaliveBackoff ==
    /\ LoopIdle
    /\ \E t \in waiting :
        /\ t.kind = "keepalive" /\ t.pc = "backoff"
        /\ waiting' = (waiting \ {t}) \cup {Suspend(t, "sleep")}
    /\ usb_cmd' = <<"_keepalive_loop", "slept">>
    /\ wire_none
    /\ UNCHANGED <<orientation, scene, image_data, image_update_pending, image_needs_update,
                   is_sending_image, keepalive_task, device_image, setup_pc, n_upd, quiet,
                   ready, running, um_connected, um_device>>

\* self._keepalive_task.cancel(): the task's next step, queued behind the tasks
\* that are ready, is the delivery of CancelledError
cancelled(t) == Task(t.id, t.kind, "cancelled", t.image, t.i)

cancel_keepalive ==
    /\ waiting' = {t \in waiting : t.kind # "keepalive"}
    /\ ready' = [k \in 1..Len(ready) |->
                    IF ready[k].kind = "keepalive" THEN cancelled(ready[k]) ELSE ready[k]]
                \o (IF \E u \in waiting : u.kind = "keepalive"
                    THEN <<cancelled(CHOOSE u \in waiting : u.kind = "keepalive")>>
                    ELSE <<>>)

\* the outcomes of a teardown call (releaseInterface / close, context.close,
\* writer.close, wait_closed): it returns or raises, and except Exception: pass
TeardownOutcomes == {"ok", "error"}

usb_release(outcome) == IF outcome = "ok" THEN "usb_released" ELSE "usb_release_error"

\* USBManager.disconnect(), then the serial close up to its await:
\* self._connected = False whatever the release did; the writer is closed but
\* self._serial_writer is left as it is
release_and_close(queue) ==
    \E usb \in TeardownOutcomes, ser \in TeardownOutcomes :
        /\ um_connected' = FALSE
        /\ IF ~serial_writer
           THEN /\ teardown' = teardown \o <<usb_release(usb)>>
                /\ shutdown_pc' = "done"
                /\ ready' = queue
                /\ UNCHANGED waiting
           ELSE IF ser = "error"
           THEN \* writer.close() raised
                /\ teardown' = teardown \o <<usb_release(usb), "serial_close_error">>
                /\ shutdown_pc' = "done"
                /\ ready' = queue
                /\ UNCHANGED waiting
           ELSE \* await self._serial_writer.wait_closed()
                /\ teardown' = teardown \o <<usb_release(usb)>>
                /\ shutdown_pc' = "close"
                /\ ready' = queue
                /\ waiting' = waiting \cup {Task(fresh_id, "shutdown", "wait_closed", NoBitmap, 0)}

\* async_shutdown() is called: with a keepalive task it cancels it and awaits
\* it, without one it goes straight on to the release
ShutdownStart ==
    /\ LoopIdle
    /\ shutdown_pc = "no"     \* async_unload_entry unloads a loaded entry
    /\ IF keepalive_task
       THEN /\ cancel_keepalive
            /\ shutdown_pc' = "cancel"
            /\ UNCHANGED <<teardown, um_connected>>
       ELSE release_and_close(ready)
    /\ UNCHANGED <<sess_vars, ctl_vars, running, um_device, um_call_vars>>

\* CancelledError reaches the keepalive task: the loop breaks (or, in the
\* handler's sleep, the task is cancelled), and the awaiting async_shutdown is
\* woken behind the tasks that are ready
KeepaliveCancelled ==
    /\ LoopIdle
    /\ ready # <<>>
    /\ Head(ready).kind = "keepalive"
    /\ Head(ready).pc = "cancelled"
    /\ ready' = Tail(ready) \o <<Task(0, "shutdown", "resume", NoBitmap, 0)>>
    /\ teardown' = Append(teardown, "keepalive_ended")
    /\ UNCHANGED <<sess_vars, ctl_vars, shutdown_pc, waiting, running, um_vars>>

\* async_shutdown goes on after the keepalive task has ended
ShutdownResume ==
    /\ LoopIdle
    /\ ready # <<>>
    /\ Head(ready).kind = "shutdown"
    /\ release_and_close(Tail(ready))
    /\ UNCHANGED <<sess_vars, ctl_vars, running, um_device, um_call_vars>>

\* wait_closed returned or raised: "Connections closed", async_shutdown is over
ShutdownClosed ==
    /\ LoopIdle
    /\ \E t \in waiting, ser \in TeardownOutcomes :
        /\ t.kind = "shutdown" /\ t.pc = "wait_closed"
        /\ waiting' = waiting \ {t}
        /\ teardown' = Append(teardown, IF ser = "ok" THEN "serial_closed" ELSE "serial_close_error")
        /\ shutdown_pc' = "done"
    /\ UNCHANGED <<sess_vars, ctl_vars, ready, running, um_vars>>

(***************************************************************************)
(* The pixel codec (coordinator.py pil_image_to_rgb565, image.py           *)
(* _rgb565_to_pil_image)                                                   *)
(*                                                                         *)
(* Both are functions of their arguments alone.  They are applied here to  *)
(* frames of at most MaxSide x MaxSide pixels, and to frames of one pixel  *)
(* of every value; the loops of the source are the same for any width and  *)
(* height.  An image is its size and the (r, g, b) of each (x, y); a       *)
(* buffer is a sequence of bytes.                                          *)
(***************************************************************************)
VARIABLES
    codec_o,        \* the orientation code the codec is called with
    codec_size,     \* the width and height of the display it is called for
    codec_data,     \* the device buffer handed to the decoder (or <<>>)
    codec_img,      \* the image handed to the encoder, or made by the decoder
    codec_out,      \* the bytes returned by the encoder (or <<>>)
    codec_fmt,      \* the bytes returned by _format_image_for_device (or <<>>)
    codec_pc        \* "none", or how far the calls have got: "image" ->
                    \* "encoded" -> "formatted", "buffer" -> "decoded" ->
                    \* "reencoded"

codec_vars == <<codec_o, codec_size, codec_data, codec_img, codec_out, codec_fmt, codec_pc>>

\* the operators >>, <<, & and | of the source, on naturals
shr(a, n) == a \div (2 ^ n)
shl(a, n) == a * (2 ^ n)

RECURSIVE BitAnd(_, _)
BitAnd(a, b) ==
    IF a = 0 \/ b = 0 THEN 0
    ELSE (IF a % 2 = 1 /\ b % 2 = 1 THEN 1 ELSE 0) + 2 * BitAnd(a \div 2, b \div 2)

RECURSIVE BitOr(_, _)
BitOr(a, b) ==
    IF a = 0 THEN b
    ELSE IF b = 0 THEN a
    ELSE (IF a % 2 = 1 \/ b % 2 = 1 THEN 1 ELSE 0) + 2 * BitOr(a \div 2, b \div 2)

Image(w, h, px) == [width |-> w, height |-> h, pixels |-> px]
NoImage == Image(0, 0, <<>>)

Coords(w, h) == (0..(w - 1)) \X (0..(h - 1))

\* color = (r5 << 11) | (g6 << 5) | b5 of the pixel p = (r, g, b)
rgb565_color(p) ==
    LET r5 == BitAnd(shr(p[1], 3), 31)
        g6 == BitAnd(shr(p[2], 2), 63)
        b5 == BitAnd(shr(p[3], 3), 31)
    IN  BitOr(BitOr(shl(r5, 11), shl(g6, 5)), b5)

\* rgb565_data.append((color >> 8) & 0xFF); rgb565_data.append(color & 0xFF)
PairLowFirst(p) ==
    <<BitAnd(rgb565_color(p), 255), BitAnd(shr(rgb565_color(p), 8), 255)>>
rgb565_pair(p) ==
    <<BitAnd(shr(rgb565_color(p), 8), 255), BitAnd(rgb565_color(p), 255)>>

\* the order in which the encoder's loops read the pixels: for PORTRAIT
\* `for x in range(width - 1, -1, -1): for y in range(height)`, otherwise
\* `for y in range(height): for x in range(width)`
ScanSwapped(w, h, o) ==
    IF o # PORTRAIT
    THEN [k \in 1..(w * h) |-> <<w - 1 - ((k - 1) \div h), (k - 1) % h>>]
    ELSE [k \in 1..(w * h) |-> <<(k - 1) % w, (k - 1) \div w>>]
encode_scan(w, h, o) ==
    IF o = PORTRAIT
    THEN [k \in 1..(w * h) |-> <<w - 1 - ((k - 1) \div h), (k - 1) % h>>]
    ELSE [k \in 1..(w * h) |-> <<(k - 1) % w, (k - 1) \div w>>]

\* pil_image_to_rgb565(pil_image, width, height, orientation) of an RGB image
\* of the size asked for: the pairs of the pixels, in the order of the loops
rgb565_data(img, o) ==
    LET scan == encode_scan(img.width, img.height, o)
    IN  [n \in 1..(2 * Len(scan)) |-> rgb565_pair(img.pixels[scan[(n + 1) \div 2]])[2 - (n % 2)]]

\* the order of the loops of _format_image_for_device: for 0x01
\* `for y in range(height): for x in range(width)`, otherwise
\* `for x in range(width - 1, -1, -1): for y in range(height)`
FormatScanSwapped(w, h, o) ==
    IF o = 1
    THEN [k \in 1..(w * h) |-> <<w - 1 - ((k - 1) \div h), (k - 1) % h>>]
    ELSE [k \in 1..(w * h) |-> <<(k - 1) % w, (k - 1) \div w>>]
format_scan(w, h, o) ==
    IF o = 1
    THEN [k \in 1..(w * h) |-> <<(k - 1) % w, (k - 1) \div w>>]
    ELSE [k \in 1..(w * h) |-> <<w - 1 - ((k - 1) \div h), (k - 1) % h>>]

\* _format_image_for_device(pil_image, orientation) of an RGB image of the
\* display's size: the same pairs, appended in the order of its own loops
format_image_for_device(img, o) ==
    LET scan == format_scan(img.width, img.height, o)
    IN  [n \in 1..(2 * Len(scan)) |-> rgb565_pair(img.pixels[scan[(n + 1) \div 2]])[2 - (n % 2)]]

\* r = (r5 * 255) // 31, g = (g6 * 255) // 63, b = (b5 * 255) // 31
ExpandShort(v, top) == (v * 255) \div (top + 1)
expand(v, top) == (v * 255) \div top

\* color = (high << 8) | low of the pair that starts at byte data_idx (from 0)
pair_color(data, data_idx) == BitOr(shl(data[data_idx + 1], 8), data[data_idx + 2])

rgb888(color) ==
    <<expand(BitAnd(shr(color, 11), 31), 31),
      expand(BitAnd(shr(color, 5), 63), 63),
      expand(BitAnd(color, 31), 31)>>

\* _rgb565_to_pil_image(rgb565_data) for a display of w x h: None for a buffer
\* of another length; for 0x01 Image.frombytes of the pixels in buffer order
\* (rows); otherwise pixels[x, y] assigned from data_idx in the order
\* `for x in range(width - 1, -1, -1): for y in range(height)`
rgb565_to_pil_image(data, w, h, o) ==
    IF Len(data) # w * h * 2 THEN NoImage
    ELSE IF o = 1
    THEN Image(w, h, [xy \in Coords(w, h) |-> rgb888(pair_color(data, 2 * (xy[2] * w + xy[1])))])
    ELSE LET scan == [k \in 1..(w * h) |-> <<w - 1 - ((k - 1) \div h), (k - 1) % h>>]
             at(xy) == CHOOSE k \in 1..(w * h) : scan[k] = xy
         IN  Image(w, h, [xy \in Coords(w, h) |-> rgb888(pair_color(data, 2 * (at(xy) - 1)))])

\* the inputs: frames of every size up to MaxSide x MaxSide with pixels of two
\* colours, frames of one pixel with each component at each of its values;
\* buffers of every size with pixels of two values, buffers of one pixel of
\* every 16-bit value
PalettePixels == {<<255, 0, 0>>, <<8, 132, 80>>}
SamplePixels ==
    {<<v, c, c>> : v \in 0..255, c \in {0, 255}}
        \cup {<<c, v, c>> : v \in 0..255, c \in {0, 255}}
        \cup {<<c, c, v>> : v \in 0..255, c \in {0, 255}}
PaletteBytes == {<<248, 0>>, <<12, 42>>}

CodecImages ==
    UNION {{Image(w, h, px) : px \in [Coords(w, h) -> PalettePixels]} :
                <<w, h>> \in (1..MaxSide) \X (1..MaxSide)}
        \cup {Image(1, 1, [xy \in Coords(1, 1) |-> p]) : p \in SamplePixels}

Flatten(pairs) == [n \in 1..(2 * Len(pairs)) |-> pairs[(n + 1) \div 2][2 - (n % 2)]]

CodecBuffers ==
    UNION {{[width |-> w, height |-> h, data |-> Flatten(pairs)] :
                pairs \in [1..(w * h) -> PaletteBytes]} :
                <<w, h>> \in (1..MaxSide) \X (1..MaxSide)}
        \cup {[width |-> 1, height |-> 1, data |-> <<color \div 256, color % 256>>] :
                color \in 0..65535}

CodecIdle ==
    /\ codec_o = DEFAULT_ORIENTATION
    /\ codec_size = get_display_size(DEFAULT_ORIENTATION)
    /\ codec_data = <<>>
    /\ codec_img = NoImage
    /\ codec_out = <<>>
    /\ codec_fmt = <<>>
    /\ codec_pc = "none"

CodecInputs ==
    /\ codec_o \in {PORTRAIT, LANDSCAPE}
    /\ codec_out = <<>>
    /\ codec_fmt = <<>>
    /\ \/ /\ codec_pc = "image"
          /\ codec_data = <<>>
          /\ codec_img \in CodecImages
          /\ codec_size = <<codec_img.width, codec_img.height>>
       \/ /\ codec_pc = "buffer"
          /\ \E b \in CodecBuffers :
                /\ codec_data = b.data
                /\ codec_size = <<b.width, b.height>>
                /\ codec_img = NoImage

\* rgb565_data = pil_image_to_rgb565(img, width, height, self._orientation)
Encode ==
    /\ codec_pc \in {"image", "decoded"}
    /\ codec_out' = rgb565_data(codec_img, codec_o)
    /\ codec_pc' = IF codec_pc = "image" THEN "encoded" ELSE "reencoded"
    /\ UNCHANGED <<codec_o, codec_size, codec_data, codec_img, codec_fmt>>

\* set_pixel: rgb565_data = self._format_image_for_device(img, self._orientation),
\* here for the frame that fill_image / _update_display_image have encoded
FormatForDevice ==
    /\ codec_pc = "encoded"
    /\ codec_fmt' = format_image_for_device(codec_img, codec_o)
    /\ codec_pc' = "formatted"
    /\ UNCHANGED <<codec_o, codec_size, codec_data, codec_img, codec_out>>

\* pil_image = self._rgb565_to_pil_image(image_data)
Decode ==
    /\ codec_pc = "buffer"
    /\ codec_img' = rgb565_to_pil_image(codec_data, codec_size[1], codec_size[2], codec_o)
    /\ codec_pc' = "decoded"
    /\ UNCHANGED <<codec_o, codec_size, codec_data, codec_out, codec_fmt>>

(***************************************************************************)
(* Text elements and their rendering (text_config.py, services.py)         *)
(***************************************************************************)
VARIABLES
    text_elements,  \* text_renderer._text_elements, in insertion order
    sensor_values,  \* text_renderer._sensor_values: entity key -> value
    text_result,    \* how the latest call of a text service ended
    rendered,       \* what the latest render_text_on_image drew, in order
    n_text          \* number of calls of the text services

text_vars == <<text_elements, sensor_values, text_result, rendered, n_text>>

\* no sensor value recorded
NoValues == [k \in {} |-> ""]

\* TextRenderer.__init__ without a saved configuration
TextIdle ==
    /\ text_elements = <<>>
    /\ sensor_values = NoValues
    /\ text_result = "none"
    /\ rendered = <<>>
    /\ n_text = 0

\* Strings are sequences of pieces, so that + is \o and "" is <<>>.
STATIC_MARKERS == {<<"static">>, <<"none">>, <<"text">>}
NA == <<"N/A">>

\* TextElement: the fields that decide what is drawn, and where
TextElement(key, data, static, text) ==
    [entity_id |-> key, x |-> data.x, y |-> data.y, prefix |-> data.prefix,
     suffix |-> data.suffix, format |-> data.format, is_static |-> static,
     static_value |-> text]

\* self.format.format(value=...): "{value}" gives the value, "[{value}]" puts it
\* in brackets, "{value:d}" raises ValueError for a string
format_raises(format) == format = "{value:d}"
format_value(format, value) ==
    IF format = "[{value}]" THEN <<"[">> \o value \o <<"]">> ELSE value

\* TextElement.get_text(value): the static value if the element is static and
\* has one, otherwise the value passed
TableValueFirst(element, value) == value
text_source(element, value) ==
    IF element.is_static /\ element.static_value # <<>> THEN element.static_value ELSE value

\* TextElement.get_text(value), with its except branch
get_text(element, value) ==
    IF format_raises(element.format)
    THEN element.prefix \o text_source(element, value) \o element.suffix
    ELSE element.prefix \o format_value(element.format, text_source(element, value))
            \o element.suffix

\* `entity_id in self._text_elements`, in the handler and in add_text_element
NeverExists(elements, key) == FALSE
element_exists(elements, key) == \E k \in 1..Len(elements) : elements[k].entity_id = key

\* self._text_elements[element.entity_id] = element: a new key comes last, a
\* key already there keeps its place
dict_set(elements, element) ==
    IF \E k \in 1..Len(elements) : elements[k].entity_id = element.entity_id
    THEN [k \in 1..Len(elements) |->
            IF elements[k].entity_id = element.entity_id THEN element ELSE elements[k]]
    ELSE Append(elements, element)

\* TextRenderer.add_text_element(element): the value returned, the collection
add_text_element_ok(elements, element) == ~element_exists(elements, element.entity_id)
add_text_element(elements, element) ==
    IF add_text_element_ok(elements, element) THEN dict_set(elements, element) ELSE elements

\* TextRenderer.update_sensor_value(entity_id, value)
update_sensor_value(values, key, value) ==
    [k \in DOMAIN values \cup {key} |-> IF k = key THEN value ELSE values[k]]

\* TextRenderer.get_required_entities()
get_required_entities(elements) == {elements[k].entity_id : k \in 1..Len(elements)}

\* the loop of render_text_on_image goes on with the next element after one
\* without a recorded value (the else branch only logs a warning)
StopAtMissing(rest) == <<>>
after_missing(rest) == rest

\* render_text_on_image: for each element in collection order, if its key has a
\* value and its text is not empty, the text is drawn at (x, y); an exception
\* while drawing (keys in failing) is caught and the loop goes on
RECURSIVE render_text_on_image(_, _, _)
render_text_on_image(elements, values, failing) ==
    IF elements = <<>> THEN <<>>
    ELSE LET element == Head(elements)
             text == get_text(element, values[element.entity_id])
         IN  IF element.entity_id \notin DOMAIN values
             THEN render_text_on_image(after_missing(Tail(elements)), values, failing)
             ELSE IF text = <<>>
             THEN render_text_on_image(Tail(elements), values, failing)
             ELSE <<[entity_id |-> element.entity_id, text |-> text, x |-> element.x,
                     y |-> element.y, drawn |-> element.entity_id \notin failing]>>
                    \o render_text_on_image(Tail(elements), values, failing)

\* the calls of add_text: an entity, static text with the text in `value`,
\* static text after the colon
AddCalls ==
    {[entity_id |-> e, value |-> v, x |-> 10, y |-> 20, prefix |-> p, suffix |-> <<>>,
      format |-> f] :
        e \in {<<"sensor.a">>, <<"static">>, <<"static:", "Hi">>},
        v \in {<<>>, <<"Yo">>},
        p \in {<<>>, <<"T=">>},
        f \in {"[{value}]", "{value:d}"}}

\* hass.states.get(entity_id) for an entity of the host: None, or its state
HostStates == {[known |-> FALSE, state |-> <<>>], [known |-> TRUE, state |-> <<"21">>]}

\* text_config.json as _save_configuration leaves it: nothing, or an entity
\* element and a static element
SavedElement(key, static, text) ==
    TextElement(key, [x |-> 0, y |-> 0, prefix |-> <<>>, suffix |-> <<>>, format |-> "{value}"],
                static, text)
SavedConfigurations ==
    {<<>>,
     <<SavedElement(<<"sensor.b">>, FALSE, <<>>),
       SavedElement(<<"static_text_", "md5:", "Hi">>, TRUE, <<"Hi">>)>>}

\* _initialize_static_values(): the value of each static element is recorded
StaticValuesNotRecorded(elements) == NoValues
initialize_static_values(elements) ==
    [key \in {elements[k].entity_id : k \in {j \in 1..Len(elements) :
                    elements[j].is_static /\ elements[j].static_value # <<>>}} |->
        (CHOOSE e \in {elements[k] : k \in 1..Len(elements)} : e.entity_id = key).static_value]

\* TextRenderer.__init__: _load_configuration(), _initialize_static_values()
TextInit ==
    /\ text_elements \in SavedConfigurations
    /\ sensor_values = initialize_static_values(text_elements)
    /\ text_result = "none"
    /\ rendered = <<>>
    /\ n_text = 0

\* a call of a text service or of a sensor callback, between two tasks
TextCall ==
    /\ LoopIdle
    /\ n_text < MaxTextCalls
    /\ n_text' = n_text + 1
    /\ notified' = FALSE
    /\ UNCHANGED <<orientation, is_sending_image, keepalive_task, usb_wire, usb_cmd,
                   device_image, setup_pc, n_upd, quiet, waiting, running>>
    /\ UNCHANGED <<um_vars, ctl_vars, life_vars, codec_vars, orientation_owed>>

\* coordinator._image_needs_update = True; coordinator._update_display_image()
\* with the elements and values as the call has left them
rerender(elements, values) ==
    \E failing \in SUBSET get_required_entities(elements) :
        /\ rendered' = render_text_on_image(elements, values, failing)
        /\ scene' = IF \E k \in 1..Len(rendered') : rendered'[k].drawn THEN 1 ELSE 0
        /\ update_display_image(orientation, scene', <<>>)

\* the call ends without _update_display_image()
no_rerender == UNCHANGED <<rendered, scene, image_data, image_update_pending,
                           image_needs_update, ready>>

\* services.py async_handle_add_text(call)
AddText ==
    /\ TextCall
    /\ \E data \in AddCalls, host \in HostStates :
        LET entity_id == data.entity_id
            is_static == \/ entity_id \in STATIC_MARKERS
                         \/ Head(entity_id) \in {"static:", "text:"}
            static_text == IF Len(entity_id) > 1 THEN Tail(entity_id) ELSE data.value
            final_entity_id == IF is_static
                               THEN <<"static_text_", "md5:">> \o static_text
                               ELSE entity_id
            element == TextElement(final_entity_id, data, is_static,
                                   IF is_static THEN static_text ELSE <<>>)
            value == IF is_static THEN static_text
                     ELSE IF host.known THEN host.state ELSE NA
        IN  /\ called' = <<"add_text", data, final_entity_id>>
            /\ IF is_static /\ static_text = <<>>
               THEN /\ text_result' = "no_static_text"
                    /\ UNCHANGED <<text_elements, sensor_values>>
                    /\ no_rerender
                    /\ no_save
               ELSE IF element_exists(text_elements, final_entity_id)
               THEN /\ text_result' = "exists"
                    /\ UNCHANGED <<text_elements, sensor_values>>
                    /\ no_rerender
                    /\ no_save
               ELSE IF add_text_element_ok(text_elements, element)
               THEN /\ text_result' = "added"
                    /\ text_elements' = add_text_element(text_elements, element)
                    /\ sensor_values' = update_sensor_value(sensor_values, final_entity_id, value)
                    /\ rerender(text_elements', sensor_values')
                    /\ saved
               ELSE /\ text_result' = "failed"
                    /\ UNCHANGED <<text_elements, sensor_values>>
                    /\ no_rerender
                    /\ no_save

\* services.py async_handle_update_text(call) with a new prefix (the schema has
\* no `value`); update_text_element sets the fields of an element that exists
UpdateText ==
    /\ TextCall
    /\ \E entity_id \in {<<"sensor.a">>, <<"sensor.b">>}, prefix \in {<<"T=">>} :
        /\ called' = <<"update_text", entity_id, prefix>>
        /\ IF \E k \in 1..Len(text_elements) : text_elements[k].entity_id = entity_id
           THEN /\ text_result' = "updated"
                /\ text_elements' =
                        [k \in 1..Len(text_elements) |->
                            IF text_elements[k].entity_id = entity_id
                            THEN [text_elements[k] EXCEPT !.prefix = prefix]
                            ELSE text_elements[k]]
                /\ UNCHANGED sensor_values
                /\ rerender(text_elements', sensor_values)
                /\ saved
           ELSE /\ text_result' = "not_found"
                /\ UNCHANGED <<text_elements, sensor_values>>
                /\ no_rerender
                /\ no_save

\* services.py async_handle_remove_text(call): text_renderer.remove_text_element
\* is called, and TextRenderer has no such method: AttributeError
RemoveText ==
    /\ TextCall
    /\ \E entity_id \in {<<"sensor.a">>, <<"sensor.b">>} :
        /\ called' = <<"remove_text", entity_id>>
        /\ text_result' = "AttributeError"
        /\ UNCHANGED <<text_elements, sensor_values>>
        /\ no_rerender
        /\ no_save

\* services.py async_handle_clear_all_text(call)
ClearAllText ==
    /\ TextCall
    /\ called' = <<"clear_all_text">>
    /\ text_result' = "cleared"
    /\ text_elements' = <<>>
    /\ sensor_values' = NoValues
    /\ rerender(text_elements', sensor_values')
    /\ saved

\* __init__.py handle_state_change(event) for a tracked entity with a new
\* state: coordinator.update_sensor_state(entity_id, new_state.state)
StateChanged ==
    /\ TextCall
    /\ \E entity_id \in get_required_entities(text_elements), state \in {<<"22">>, <<>>} :
        /\ called' = <<"update_sensor_state", entity_id, state>>
        /\ text_result' = "value"
        /\ UNCHANGED text_elements
        /\ sensor_values' = update_sensor_value(sensor_values, entity_id, state)
        /\ rerender(text_elements, sensor_values')
        /\ no_save

\* _async_update_data() of the first refresh: _update_display_image() with the
\* elements loaded and the values recorded so far
FirstRender ==
    /\ TextCall
    /\ n_text = 0
    /\ called' = <<"_async_update_data">>
    /\ text_result' = "rendered"
    /\ UNCHANGED <<text_elements, sensor_values>>
    /\ rerender(text_elements, sensor_values)
    /\ no_save

\* coordinator._initialize_sensor_states(): every required entity gets the
\* state the host has for it, or "N/A" (the host has no entity named like the
\* key of a static text), then _update_display_image()
InitializeSensorStates ==
    /\ TextCall
    /\ \E host \in HostStates :
        /\ called' = <<"_initialize_sensor_states", host>>
        /\ text_result' = "values"
        /\ UNCHANGED text_elements
        /\ sensor_values' =
                [key \in DOMAIN sensor_values \cup get_required_entities(text_elements) |->
                    IF key \in get_required_entities(text_elements)
                    THEN IF host.known /\ Head(key) # "static_text_" THEN host.state ELSE NA
                    ELSE sensor_values[key]]
        /\ rerender(text_elements, sensor_values')
        /\ no_save

\* what a step of a control task leaves alone: _send_control_packet and
\* _async_setup_serial_connection assign self._serial_writer and nothing else,
\* and call nothing of the USB manager or of the image session
SerialFailureDropsUsb ==
    /\ um_connected' = (um_connected /\ serial_io' # "failed")
    /\ UNCHANGED <<um_device, um_call_vars, sess_vars, life_vars>>
serial_frame == UNCHANGED <<um_vars, sess_vars, life_vars>>

\* the steps of the set-up, of the tasks and of the teardown: what they leave
\* alone besides their own part of the state
orientation_frame == UNCHANGED <<um_call_vars, ctl_vars, life_vars, codec_vars, text_vars, persist_vars>> /\ note_none
task_frame == orientation_frame /\ UNCHANGED orientation_owed

\* the codec and the text renderer are not called
elsewhere == UNCHANGED <<codec_vars, text_vars, persist_vars, orientation_owed>>

\* the same for a request that reaches _save_configuration()
elsewhere_saving == UNCHANGED <<codec_vars, text_vars>>

(***************************************************************************)
(* Specifications                                                          *)
(***************************************************************************)
UmNext ==
    \/ UmConnect /\ UNCHANGED <<loop_vars, ctl_vars, sess_vars, life_vars>> /\ note_none /\ elsewhere
    \/ UmSendOrientation /\ UNCHANGED <<loop_vars, ctl_vars, sess_vars, life_vars>> /\ note_none /\ elsewhere
    \/ UmSendKeepalive /\ UNCHANGED <<loop_vars, ctl_vars, sess_vars, life_vars>> /\ note_none /\ elsewhere
    \/ UmImageBegin /\ UNCHANGED <<loop_vars, ctl_vars, sess_vars, life_vars>> /\ note_none /\ elsewhere
    \/ UmImageChunk /\ UNCHANGED <<loop_vars, ctl_vars, sess_vars, life_vars>> /\ note_none /\ elsewhere
    \/ UmImageEnd /\ UNCHANGED <<loop_vars, ctl_vars, sess_vars, life_vars>> /\ note_none /\ elsewhere

ControlNext ==
    \/ SelectTheme /\ UNCHANGED <<um_vars, sess_vars, life_vars>> /\ elsewhere
    \/ SetIntensity /\ UNCHANGED <<um_vars, sess_vars, life_vars>> /\ elsewhere
    \/ SetSpeed /\ UNCHANGED <<um_vars, sess_vars, life_vars>> /\ elsewhere
    \/ CtlStart /\ serial_frame /\ note_none /\ elsewhere
    \/ CtlOpened /\ serial_frame /\ note_none /\ elsewhere
    \/ CtlDrainedInSetup /\ serial_frame /\ note_none /\ elsewhere
    \/ CtlDrained /\ serial_frame /\ note_none /\ elsewhere

\* the steps by which the loop runs the task at the head of the queue or goes on
\* with the task that holds it
RunTask ==
    \/ ImgStart /\ task_frame
    \/ ImgChunk /\ task_frame
    \/ ImgEnd /\ task_frame
    \/ OrientationTask /\ orientation_frame
    \/ KeepaliveStart /\ task_frame

Next ==
    \/ SetImage /\ UNCHANGED <<um_call_vars, ctl_vars, life_vars>> /\ elsewhere
    \/ UpdateSensorState /\ UNCHANGED <<um_call_vars, ctl_vars, life_vars>> /\ elsewhere
    \/ TextElementsChanged /\ UNCHANGED <<um_call_vars, ctl_vars, life_vars>> /\ elsewhere_saving
    \/ SetOrientation /\ UNCHANGED <<um_call_vars, ctl_vars, life_vars>> /\ elsewhere_saving
    \/ RefreshData /\ task_frame
    \/ StartupSend /\ task_frame
    \/ ImgStart /\ task_frame
    \/ ImgChunk /\ task_frame
    \/ ImgEnd /\ task_frame
    \/ OrientationTask /\ orientation_frame
    \/ KeepaliveStart /\ task_frame
    \/ KeepaliveTick /\ task_frame

\* the entry is loaded: the caller makes its requests from the end of set-up
\* to the unload
Loaded == shutdown_pc = "no"

\* the whole coordinator: image session, lighting control and teardown.  The
\* caller's requests are one for each kind of task they create: a sensor update
\* (image task), an orientation change (orientation and image tasks) and a
\* theme selection (control task)
LifeTasks ==
    \/ RefreshData /\ task_frame
    \/ StartupSend /\ task_frame
    \/ ImgStart /\ task_frame
    \/ ImgChunk /\ task_frame
    \/ ImgEnd /\ task_frame
    \/ OrientationTask /\ orientation_frame
    \/ KeepaliveStart /\ task_frame
    \/ KeepaliveTick /\ task_frame
    \/ KeepaliveRaise /\ task_frame
    \/ KeepaliveBackoff /\ task_frame
    \/ CtlStart /\ serial_frame /\ note_none /\ elsewhere
    \/ CtlOpened /\ serial_frame /\ note_none /\ elsewhere
    \/ CtlDrainedInSetup /\ serial_frame /\ note_none /\ elsewhere
    \/ CtlDrained /\ serial_frame /\ note_none /\ elsewhere
    \/ EntryLoaded /\ note_none /\ elsewhere
    \/ ShutdownStart /\ note_none /\ elsewhere
    \/ KeepaliveCancelled /\ note_none /\ elsewhere
    \/ ShutdownResume /\ note_none /\ elsewhere
    \/ ShutdownClosed /\ note_none /\ elsewhere

\* at most MaxLifeRequests requests in all
LifeRequest == Loaded /\ n_set + n_upd < MaxLifeRequests

LifeNext ==
    \/ LifeRequest /\ UpdateSensorState /\ ~quiet' /\ UNCHANGED <<um_call_vars, ctl_vars, life_vars>> /\ elsewhere
    \/ LifeRequest /\ SetOrientation /\ ~quiet' /\ UNCHANGED <<um_call_vars, ctl_vars, life_vars>> /\ elsewhere_saving
    \/ LifeRequest /\ SelectTheme /\ UNCHANGED <<um_vars, sess_vars, life_vars>> /\ elsewhere
    \/ LifeTasks

\* at most MaxUpdates update requests and MaxLifeRequests theme selections
UnloadNext ==
    \/ Loaded /\ UpdateSensorState /\ ~quiet' /\ UNCHANGED <<um_call_vars, ctl_vars, life_vars>> /\ elsewhere
    \/ Loaded /\ SetOrientation /\ ~quiet' /\ UNCHANGED <<um_call_vars, ctl_vars, life_vars>> /\ elsewhere_saving
    \/ Loaded /\ n_set < MaxLifeRequests /\ SelectTheme
              /\ UNCHANGED <<um_vars, sess_vars, life_vars>> /\ elsewhere
    \/ LifeTasks

vars == <<um_vars, loop_vars, ctl_vars, sess_vars, orientation_owed, life_vars, note_vars, persist_vars, codec_vars,
          text_vars>>

UsbInit ==
    PersistInit /\ CodecIdle /\ TextIdle /\ UmInit /\ LoopInit /\ NoteInit /\ CtlInit /\ SessInit /\ LifeInit /\ orientation = DEFAULT_ORIENTATION

ControlInit ==
    PersistInit /\ CodecIdle /\ TextIdle /\ UmInitIdle /\ LoopInit /\ NoteInit /\ CtlInit /\ SessInit /\ LifeInit /\ orientation = DEFAULT_ORIENTATION

Init ==
    PersistInit /\ UmInitIdle /\ LoopInit /\ NoteInit /\ CtlInit /\ SessInit /\ LifeInit /\ CodecIdle /\ TextIdle

SpecUsb == UsbInit /\ [][UmNext]_vars

SpecControl == ControlInit /\ [][ControlNext]_vars

Spec == Init /\ [][Next]_vars

SpecLife == Init /\ [][LifeNext]_vars

SpecUnload == Init /\ [][UnloadNext]_vars

\* the requests that change the state through a setter or ask for a render,
\* one of each kind, and the tasks they create
NotifyRequest == Loaded /\ n_set + n_upd < MaxNotifyRequests

NotifyNext ==
    \/ NotifyRequest /\ SelectTheme /\ UNCHANGED <<um_vars, sess_vars, life_vars>> /\ elsewhere
    \/ NotifyRequest /\ SetIntensity /\ UNCHANGED <<um_vars, sess_vars, life_vars>> /\ elsewhere
    \/ NotifyRequest /\ SetSpeed /\ UNCHANGED <<um_vars, sess_vars, life_vars>> /\ elsewhere
    \/ NotifyRequest /\ SetOrientation /\ ~quiet' /\ UNCHANGED <<um_call_vars, ctl_vars, life_vars>> /\ elsewhere_saving
    \/ NotifyRequest /\ SetImage /\ ~quiet' /\ UNCHANGED <<um_call_vars, ctl_vars, life_vars>> /\ elsewhere
    \/ NotifyRequest /\ UpdateSensorState /\ ~quiet' /\ UNCHANGED <<um_call_vars, ctl_vars, life_vars>> /\ elsewhere
    \/ NotifyRequest /\ TextElementsChanged /\ ~quiet' /\ UNCHANGED <<um_call_vars, ctl_vars, life_vars>> /\ elsewhere_saving
    \/ RefreshData /\ task_frame
    \/ StartupSend /\ task_frame
    \/ ImgStart /\ task_frame
    \/ ImgChunk /\ task_frame
    \/ ImgEnd /\ task_frame
    \/ OrientationTask /\ orientation_frame
    \/ KeepaliveStart /\ task_frame
    \/ KeepaliveTick /\ task_frame
    \/ CtlStart /\ serial_frame /\ note_none /\ elsewhere
    \/ CtlOpened /\ serial_frame /\ note_none /\ elsewhere
    \/ CtlDrainedInSetup /\ serial_frame /\ note_none /\ elsewhere
    \/ CtlDrained /\ serial_frame /\ note_none /\ elsewhere
    \/ EntryLoaded /\ note_none /\ elsewhere

SpecNotify == Init /\ [][NotifyNext]_vars

\* the host is restarted after the entry has been loaded: the module is imported again
\* (text_renderer = TextRenderer() loads the file), async_setup_entry constructs
\* a new coordinator; the tasks of the old process are gone, the device keeps
\* what it has received
Restart ==
    /\ Loaded
    /\ LoopIdle
    /\ n_restart < MaxRestarts
    /\ n_restart' = n_restart + 1
    /\ called' = <<"restart">>
    /\ notified' = FALSE
    /\ UNCHANGED <<config_file, writable>>
    /\ last_orientation' = load_configuration(config_file)
    /\ orientation' = initial_orientation(last_orientation')
    /\ scene' = 0
    /\ image_data' = create_default_image
    /\ image_update_pending' = FALSE
    /\ image_needs_update' = TRUE
    /\ is_sending_image' = FALSE
    /\ keepalive_task' = FALSE
    /\ usb_wire' = <<>>
    /\ usb_cmd' = <<>>
    /\ setup_pc' = "new"
    /\ quiet' = FALSE
    /\ UNCHANGED <<device_image, n_upd>>
    /\ orientation_owed' = 0
    /\ um_connected' = FALSE
    /\ um_device' = FALSE
    /\ um_call' = "none"
    /\ um_image' = <<>>
    /\ um_i' = 0
    /\ um_wire' = <<>>
    /\ um_ret' = "none"
    /\ um_last' = "none"
    /\ um_left_at' = 0
    /\ ready' = <<>>
    /\ waiting' = {}
    /\ running' = NoTask
    /\ theme' = DEFAULT_THEME
    /\ intensity' = DEFAULT_INTENSITY
    /\ speed' = DEFAULT_SPEED
    /\ serial_writer' = FALSE
    /\ serial_wire' = <<>>
    /\ serial_io' = "none"
    /\ last_set' = "none"
    /\ UNCHANGED n_set
    /\ shutdown_pc' = "setup"
    /\ teardown' = <<>>
    /\ UNCHANGED <<codec_vars, text_vars>>

RestartRequest == Loaded /\ n_upd < MaxUpdates

\* sessions that change the orientation and the text elements, with the
\* restarts between them
RestartNext ==
    \/ RestartRequest /\ SetOrientation /\ ~quiet' /\ UNCHANGED <<um_call_vars, ctl_vars, life_vars>> /\ elsewhere_saving
    \/ RestartRequest /\ TextElementsChanged /\ ~quiet' /\ UNCHANGED <<um_call_vars, ctl_vars, life_vars>> /\ elsewhere_saving
    \/ Restart
    \/ RefreshData /\ task_frame
    \/ StartupSend /\ task_frame
    \/ ImgStart /\ task_frame
    \/ ImgChunk /\ task_frame
    \/ ImgEnd /\ task_frame
    \/ OrientationTask /\ orientation_frame
    \/ KeepaliveStart /\ task_frame
    \/ KeepaliveTick /\ task_frame
    \/ EntryLoaded /\ note_none /\ elsewhere

\* any file, or none, and a directory that can be written or not
RestartInit ==
    /\ config_file \in ConfigFiles
    /\ last_orientation = load_configuration(config_file)
    /\ writable \in BOOLEAN
    /\ n_restart = 0
    /\ UmInitIdle /\ LoopInit /\ NoteInit /\ CtlInit /\ SessInit /\ LifeInit /\ CodecIdle /\ TextIdle

SpecRestart == RestartInit /\ [][RestartNext]_vars

\* the codec applied to its inputs
CodecNext ==
    \/ Encode /\ UNCHANGED <<um_vars, loop_vars, ctl_vars, sess_vars, orientation_owed, life_vars, note_vars, text_vars, persist_vars>>
    \/ Decode /\ UNCHANGED <<um_vars, loop_vars, ctl_vars, sess_vars, orientation_owed, life_vars, note_vars, text_vars, persist_vars>>
    \/ FormatForDevice /\ UNCHANGED <<um_vars, loop_vars, ctl_vars, sess_vars, orientation_owed, life_vars, note_vars, text_vars, persist_vars>>

CodecInit ==
    /\ PersistInit /\ UmInitIdle /\ LoopInit /\ NoteInit /\ CtlInit /\ SessInit /\ LifeInit /\ TextIdle
    /\ orientation = DEFAULT_ORIENTATION
    /\ CodecInputs

SpecCodec == CodecInit /\ [][CodecNext]_vars

\* the text services and the sensor callbacks, each with the re-render it asks for
TextNext ==
    \/ AddText
    \/ UpdateText
    \/ RemoveText
    \/ ClearAllText
    \/ StateChanged
    \/ FirstRender
    \/ InitializeSensorStates

TextSpecInit ==
    /\ PersistInit /\ UmInitIdle /\ LoopInit /\ NoteInit /\ CtlInit /\ SessInit /\ LifeInit /\ CodecIdle
    /\ orientation = DEFAULT_ORIENTATION
    /\ TextInit

SpecText == TextSpecInit /\ [][TextNext]_vars

\* the event loop does not stop while a task is ready or holds the loop
FairSpec == Spec /\ WF_vars(RunTask)

C3_OneInFlight ==
    /\ Cardinality(InFlight) <= 1
    /\ is_sending_image <=> InFlight # {}
    /\ \A t \in waiting : t.kind # "image"

C3_Witness ==
    /\ is_sending_image
    /\ running.kind = "image"
    /\ running.i > 0
    /\ \E k \in 1..Len(ready) : ready[k].kind = "image"

\* C4: while a transmission is in flight, the packets written since it began are
\* its own chunks, in order, and nothing else: no keepalive or orientation packet
\* lies between them.
C4_NoInterleaving ==
    \A t \in InFlight :
        /\ Len(usb_wire) * chunk_size = t.i
        /\ \A k \in 1..Len(usb_wire) :
              /\ usb_wire[k].header[2] = 163      \* 0xA3 image, not 0xA1 command
              /\ usb_wire[k] = wire_chunk(t.image, (k - 1) * chunk_size)

C4_Witness ==
    /\ running.kind = "image"
    /\ running.i > chunk_size
    /\ running.i < running.image.len
    /\ \E t \in waiting : t.kind = "keepalive" /\ t.pc = "sleep"
    /\ \E k \in 1..Len(ready) : ready[k].kind = "orientation"

\* C8: the k-th chunk written carries k in header byte 3 and ((k-1) mod 16) * 16
\* in header byte 5, bytes 0, 1, 4, 6, 7 are 55 A3 00 00 10, and for the 108800
\* byte bitmap every header value of every chunk is a byte, up to the 27th.
C8_ChunkHeaders ==
    /\ \A k \in 1..Len(usb_wire) :
          LET h == usb_wire[k].header
          IN  /\ h[1] = 85 /\ h[2] = 163 /\ h[5] = 0 /\ h[7] = 0 /\ h[8] = 16
              /\ h[4] = k
              /\ h[6] = ((k - 1) % 16) * 16
              /\ \A j \in 1..8 : h[j] \in Byte
    /\ \A t \in InFlight :
          /\ t.image.len = 108800
          /\ t.i < t.image.len => header_fits(t.i, t.image.len)
          /\ t.i >= t.image.len => Len(usb_wire) = 27

C8_Witness ==
    /\ Len(usb_wire) = 27
    /\ usb_wire[16].header[6] = 240
    /\ usb_wire[17].header[6] = 0
    /\ usb_wire[17].header[4] = 17
    /\ usb_wire[27].header[4] = 27
    /\ usb_wire[27].header[6] = 160


(***************************************************************************)
(* Properties of the lighting control packet (SpecControl)                 *)
(***************************************************************************)
\* a step of a control task, and one in which it wrote a packet
ControlTaskStep == waiting' # waiting
SerialWritten == ControlTaskStep /\ serial_wire' # <<>>

\* C9: whenever a control packet is written to serial, ControlState is within
\* 1..5 and the packet is FA, theme, intensity, speed, (FA+theme+intensity+speed)
\* & FF for the state at the moment of the write; theme 1, intensity 3, speed 2
\* gives FA 01 03 02 00.
C9_ControlPacket ==
    [][SerialWritten =>
        /\ theme' = theme /\ intensity' = intensity /\ speed' = speed
        /\ theme \in 1..5 /\ intensity \in 1..5 /\ speed \in 1..5
        /\ serial_wire' = << <<250, theme, intensity, speed,
                               (250 + theme + intensity + speed) % 256>> >>
        /\ (theme = 1 /\ intensity = 3 /\ speed = 2) =>
              serial_wire' = << <<250, 1, 3, 2, 0>> >>]_vars

C9_Witness ==
    /\ serial_wire = << <<250, 1, 3, 2, 0>> >>
    /\ theme = 1 /\ intensity = 3 /\ speed = 2

SetRequest == n_set' = n_set + 1

ControlTaskCreated ==
    /\ Len(ready') = Len(ready) + 1
    /\ ready'[Len(ready')].kind = "control"
    /\ SubSeq(ready', 1, Len(ready)) = ready

ControlTaskStarted == ready # <<>> /\ Head(ready).kind = "control" /\ ready' = Tail(ready)

\* the send attempt of a started task: the packet of the current state is written,
\* or, without a writer, the serial connect is attempted
SendAttempt ==
    IF serial_writer
    THEN serial_wire' = <<control_packet(theme, intensity, speed)>>
    ELSE \E t \in waiting' \ waiting : t.kind = "control" /\ t.pc = "open"

\* C10 as stated: every set request the entity accepts, also one that sets a
\* field to the value it already has, creates a control-packet send.
C10_EverySetSends ==
    [][(SetRequest /\ last_set' \in {"changed", "same"}) => ControlTaskCreated]_vars

\* C10 amended: a set request that changes theme, intensity or speed creates a
\* control-packet send task, and the task, once started, writes the packet of the
\* then current state or attempts the serial connect; a request that sets a field
\* to the value it already has changes nothing and creates no send.
C10_ChangeSends ==
    [][/\ (SetRequest /\ <<theme, intensity, speed>>' # <<theme, intensity, speed>>) =>
             (last_set' = "changed" /\ ControlTaskCreated)
       /\ (SetRequest /\ <<theme, intensity, speed>>' = <<theme, intensity, speed>>) =>
             (last_set' # "changed" /\ UNCHANGED <<ready, waiting, serial_wire, serial_writer>>)
       /\ ControlTaskStarted => SendAttempt]_vars

C10_Witness ==
    /\ last_set = "changed"
    /\ theme = 4
    /\ Len(ready) = 1
    /\ ready[1].kind = "control"

\* C11: theme, intensity and speed are always within 1..5, and a request the
\* entity rejects (a value out of range, an unknown theme name) leaves
\* ControlState as it is, creates no send task and writes nothing.
C11_RangeKept ==
    /\ theme \in 1..5 /\ intensity \in MIN_INTENSITY..MAX_INTENSITY /\ speed \in MIN_SPEED..MAX_SPEED
    /\ [][/\ theme' \in 1..5
          /\ intensity' \in MIN_INTENSITY..MAX_INTENSITY
          /\ speed' \in MIN_SPEED..MAX_SPEED
          /\ (SetRequest /\ last_set' = "rejected") =>
                UNCHANGED <<theme, intensity, speed, ready, waiting, running,
                            serial_wire, serial_writer>>]_vars

C11_Witness ==
    /\ last_set = "rejected"
    /\ n_set = 2
    /\ <<theme, intensity>> # <<DEFAULT_THEME, DEFAULT_INTENSITY>>
    /\ Len(ready) = 1

\* a task begins to await open_serial_connection; the await of a task ends
ConnectAttempt == \E t \in waiting' \ waiting : t.pc = "open"
ConnectEnded == \E t \in waiting \ waiting' : t.pc = "open"
WriteEnded == \E t \in waiting \ waiting' : t.pc \in {"drain", "drain_in_setup"}

\* C12: a serial connect is attempted only by a control-packet send that finds no
\* writer, and by every such send; a failed connect leaves the link disconnected
\* and writes nothing, a failed write returns the link to disconnected, and the
\* link becomes connected only by a connect that succeeded.
C12_LazySerial ==
    [][/\ ConnectAttempt => (ControlTaskStarted /\ ~serial_writer)
       /\ (ControlTaskStarted /\ ~serial_writer) =>
             (ConnectAttempt /\ ~SerialWritten /\ ~serial_writer')
       /\ (ConnectEnded /\ serial_io' = "failed") =>
             (~serial_writer' /\ ~SerialWritten
              /\ \A t \in waiting \ waiting' : \A u \in waiting' : u.id # t.id)
       /\ (WriteEnded /\ serial_io' = "failed") => (~serial_writer' /\ ~SerialWritten)
       /\ (serial_writer' /\ ~serial_writer) => (ConnectEnded /\ serial_io' = "ok")
       /\ \A t \in waiting' : t.pc = "open" => t.kind = "control"]_vars

\* a connect or a write has failed, the link is disconnected, and a send is
\* attempting the connect
C12_Witness ==
    /\ serial_io = "failed"
    /\ ~serial_writer
    /\ serial_wire = <<>>
    /\ ready = <<>>
    /\ \E t \in waiting : t.pc = "open"
    /\ n_set >= 2

(***************************************************************************)
(* Properties of the chunked image transfer (SpecUsb)                      *)
(***************************************************************************)
\* the header of the k-th packet on the wire, by Python index 0..7
Hdr(k, idx) == um_wire[k][idx + 1]

\* the 4096 payload bytes of the k-th packet on the wire
Payload(k) == SubSeq(um_wire[k], 9, 8 + chunk_size)

RECURSIVE Payloads(_)
Payloads(n) == IF n = 0 THEN <<>> ELSE Payloads(n - 1) \o Payload(n)

CeilChunks(len) == (len + chunk_size - 1) \div chunk_size

ImageReturnedTrue == um_last = "image" /\ um_call = "none" /\ um_ret = "true"

\* C5: a bitmap longer than one chunk is sent as exactly ceil(L/4096) packets,
\* the first with frame code 0xF0, the last with 0xF2 and every one in between
\* with 0xF1, also when L is a multiple of 4096.
C5_FrameCodes ==
    (um_last = "image" /\ Len(um_image) > chunk_size) =>
        /\ Len(um_wire) <= CeilChunks(Len(um_image))
        /\ ImageReturnedTrue => Len(um_wire) = CeilChunks(Len(um_image))
        /\ \A k \in 1..Len(um_wire) :
              Hdr(k, 2) = IF k = 1 THEN 240
                          ELSE IF k = CeilChunks(Len(um_image)) THEN 242
                          ELSE 241

C5_Witness ==
    /\ ImageReturnedTrue
    /\ Len(um_image) = 2 * chunk_size
    /\ Len(um_wire) = 2
    /\ Hdr(2, 2) = 242

\* C6: the payloads of the packets written, in order and without the padding of
\* the last one, are the bitmap's bytes: after k packets its first k*4096 bytes
\* (or all of them), after a successful call the whole bitmap.
C6_Reassembly ==
    um_last = "image" =>
        LET got == Payloads(Len(um_wire))
            upto == IF um_i < Len(um_image) THEN um_i ELSE Len(um_image)
        IN  /\ Len(got) = Len(um_wire) * chunk_size
            /\ Len(got) >= upto
            /\ SubSeq(got, 1, upto) = SubSeq(um_image, 1, upto)
            /\ ImageReturnedTrue => SubSeq(got, 1, Len(um_image)) = um_image

C6_Witness ==
    /\ ImageReturnedTrue
    /\ Len(um_image) = 2 * chunk_size + 1
    /\ Len(um_wire) = 3
    /\ um_image[chunk_size + 1] # um_image[1]

\* C7: every packet written to the USB transport is 8 + 4096 = 4104 bytes: an
\* 8-byte header and a payload zero-padded to 4096 bytes.
C7_PacketSize ==
    \A k \in 1..Len(um_wire) :
        /\ Len(um_wire[k]) = 4104
        /\ Len(um_wire[k]) = 8 + chunk_size
        /\ um_last \in {"orientation", "keepalive"} =>
              \A b \in 9..(8 + chunk_size) : um_wire[k][b] = 0
        /\ (um_last = "image" /\ k * chunk_size > Len(um_image)) =>
              \A b \in (9 + Len(um_image) - (k - 1) * chunk_size)..(8 + chunk_size) :
                  um_wire[k][b] = 0

C7_Witness ==
    /\ um_last = "image"
    /\ Len(um_image) = chunk_size + 1
    /\ Len(um_wire) = 2
    /\ um_wire[2][9] = um_image[chunk_size + 1]


(***************************************************************************)
(* Properties of the keepalive loop and of the teardown (SpecLife)         *)
(***************************************************************************)
\* a step that is a tick of the keepalive loop: the sleep(1) is over and the
\* body of the try ran to its end
KeepaliveTicked ==
    /\ usb_cmd' # <<>>
    /\ Head(usb_cmd') = "_keepalive_loop"
    /\ usb_cmd' \notin {<<"_keepalive_loop", "raised">>, <<"_keepalive_loop", "slept">>}
    /\ \E t \in waiting : t.kind = "keepalive" /\ t.pc = "sleep"
    /\ {t \in waiting' : t.kind # "keepalive"} = {t \in waiting : t.kind # "keepalive"}
    /\ UNCHANGED <<ready, ctl_vars, life_vars>>

\* async_shutdown calls self._keepalive_task.cancel()
CancelStep == shutdown_pc = "no" /\ shutdown_pc' = "cancel"

\* C13: the keepalive loop ends by cancellation only: a task of the loop that
\* is suspended is still suspended after any step but the cancel() of
\* async_shutdown, be it a tick whose send failed, a tick with USB disconnected
\* or a tick in which an exception was raised; and a tick made while USB is
\* connected sends one keepalive packet
C13_KeepaliveRuns ==
    [][/\ \A t \in waiting :
            t.kind = "keepalive" =>
                \/ \E u \in waiting' : u.kind = "keepalive" /\ u.id = t.id
                \/ CancelStep
       /\ (KeepaliveTicked /\ um_connected) => usb_cmd' = <<"_keepalive_loop", "keepalive">>]_vars

\* a tick sent a keepalive, the write failed, USB is disconnected and the loop
\* sleeps on
C13_Witness ==
    /\ usb_cmd = <<"_keepalive_loop", "keepalive">>
    /\ ~um_connected
    /\ shutdown_pc = "no"
    /\ \E t \in waiting : t.kind = "keepalive" /\ t.pc = "sleep"


\* a step asks the USB transport to connect
UsbConnectAttempt == \E k \in 1..Len(usb_cmd') : usb_cmd'[k] = "connect"

\* a step of an orientation or image task that attempts the lazy connect
LazyConnectStep ==
    /\ UsbConnectAttempt
    /\ Head(usb_cmd') \in {"_send_orientation_packet", "_send_image_packet"}
    /\ ready # <<>>
    /\ Head(ready).kind \in {"orientation", "image"}
    /\ ready' # ready

\* C14 as claimed: a keepalive tick made while the USB transport is
\* disconnected attempts to connect it
C14_KeepaliveConnects == [][(KeepaliveTicked /\ ~um_connected) => UsbConnectAttempt]_vars

\* C14 as amended: a keepalive tick made while the USB transport is
\* disconnected sends nothing, attempts no connect and leaves the transport
\* disconnected; after a write failure the transport is connected again only by
\* the lazy connect of an orientation or image send
C14_NoKeepaliveConnect ==
    [][/\ (KeepaliveTicked /\ ~um_connected) =>
            /\ usb_cmd' = <<"_keepalive_loop">>
            /\ ~um_connected'
            /\ UNCHANGED <<um_device, keepalive_task>>
       /\ (um_connected' /\ ~um_connected) => LazyConnectStep]_vars

\* a keepalive write failed, the next tick found the transport disconnected and
\* left it so
C14_Witness ==
    /\ usb_cmd = <<"_keepalive_loop">>
    /\ ~um_connected
    /\ um_device
    /\ keepalive_task
    /\ \E t \in waiting : t.kind = "keepalive" /\ t.pc = "sleep"


\* the keepalive task has ended, the USB interface was released, the serial
\* writer was closed, as far as the teardown has got
KeepaliveEnded(td) == \E k \in 1..Len(td) : td[k] = "keepalive_ended"
UsbReleased(td) == \E k \in 1..Len(td) : td[k] \in {"usb_released", "usb_release_error"}
SerialClosed(td) == \E k \in 1..Len(td) : td[k] \in {"serial_closed", "serial_close_error"}

\* async_shutdown returns
ShutdownCompletes == shutdown_pc # "done" /\ shutdown_pc' = "done"

\* C15: async_shutdown cancels the keepalive task and the task has ended before
\* the USB interface is released, the release comes before the close of the
\* serial writer, a teardown step that raises does not keep the later ones
\* from being carried out, and when async_shutdown returns the USB transport is
\* marked disconnected
C15_ShutdownOrder ==
    [][/\ (UsbReleased(teardown') /\ ~UsbReleased(teardown)) =>
            /\ keepalive_task => KeepaliveEnded(teardown)
            /\ \A t \in waiting' : t.kind # "keepalive"
            /\ \A k \in 1..Len(ready') : ready'[k].kind # "keepalive"
            /\ ~SerialClosed(teardown)
       /\ ShutdownCompletes =>
            /\ UsbReleased(teardown')
            /\ serial_writer => SerialClosed(teardown')
            /\ ~um_connected']_vars

\* a step of an image, orientation or keepalive task
UsbTaskStep ==
    \/ /\ ready # <<>>
       /\ Head(ready).kind \in {"image", "orientation"}
       /\ ready' # ready
    \/ running.kind = "image"
    \/ KeepaliveTicked

\* a step of a control task
ControlStep ==
    \/ ControlTaskStarted
    \/ \E t \in waiting \ waiting' : t.kind = "control"

\* a step that asks something of a transport: a USB connect or packet, a serial
\* connect or packet
UsbAsked == UsbTaskStep /\ Len(usb_cmd') > 1
SerialAsked ==
    /\ ControlStep
    /\ \/ serial_wire' # <<>>
       \/ \E t \in waiting' \ waiting : t.kind = "control" /\ t.pc = "open"

\* C16: once async_shutdown has returned, no step of any task asks anything of
\* either transport: no USB connect, no keepalive, orientation or image packet,
\* no serial connect and no control packet
C16_NoIoAfterShutdown == [][shutdown_pc = "done" => ~UsbAsked /\ ~SerialAsked]_vars


\* C17: the transports are independent: a step of a control task (serial
\* connect, write, failure) leaves the USB connection state, the in-flight flag
\* and the pending flag as they are, and a step of an image, orientation or
\* keepalive task (USB connect, write, failure) leaves the serial writer as it is
C17_Independent ==
    [][/\ ControlStep => UNCHANGED <<um_connected, um_device, is_sending_image,
                                      image_update_pending>>
       /\ UsbTaskStep => UNCHANGED serial_writer]_vars

\* the serial link failed and is disconnected while USB stays connected and
\* the keepalive packets go on
C17_Witness ==
    /\ serial_io = "failed"
    /\ ~serial_writer
    /\ um_connected
    /\ usb_cmd = <<"_keepalive_loop", "keepalive">>


(***************************************************************************)
(* Properties of the orientation and of the stored bitmap (Spec)           *)
(***************************************************************************)
\* a step that is a call of the orientation setter
OrientationSet == n_upd' = n_upd + 1 /\ usb_cmd' = <<"orientation.setter">>

\* a step of an orientation task that writes its packet
OrientationWritten ==
    /\ ready # <<>>
    /\ Head(ready).kind = "orientation"
    /\ ready' # ready
    /\ \E k \in 1..Len(usb_cmd') : usb_cmd'[k] = "orientation"

C19_LengthChanges == [][orientation' # orientation => expected_size' # expected_size]_vars

\* C19 as amended: the expected bitmap length does not change with the
\* orientation: a change of orientation swaps the display width and height,
\* 320 x 170 for code 0x01 and 170 x 320 for code 0x02, and the expected length
\* is 108800 bytes before and after
C19_LengthKept ==
    [][orientation' # orientation =>
            /\ expected_size' = expected_size
            /\ expected_size' = 108800
            /\ display_width' = display_height
            /\ display_height' = display_width]_vars

\* the setter has just stored orientation 0x01: 320 x 170, 108800 bytes
C19_Witness ==
    /\ usb_cmd = <<"orientation.setter">>
    /\ orientation = LANDSCAPE
    /\ <<display_width, display_height>> = <<320, 170>>
    /\ expected_size = 108800
    /\ image_data.len = expected_size

\* C20: the stored bitmap has, in every state, the length display_width *
\* display_height * 2 of the current orientation, whatever the caller set,
\* filled, rendered or reoriented
C20_BitmapLength == image_data.len = display_width * display_height * 2

\* the caller has set a bitmap of its own, of the expected length, in the
\* orientation that is not the default
C20_Witness ==
    /\ image_data.px = 100
    /\ orientation # DEFAULT_ORIENTATION
    /\ image_data.len = expected_size
    /\ n_upd >= 1

(***************************************************************************)
(* Properties of the caller's requests and of the change listeners         *)
(***************************************************************************)
\* the latest step was a call of the image_data setter with a bitmap of another
\* length than the orientation's, or with the content already stored
SetImageRefused ==
    /\ called' # <<>>
    /\ called'[1] = "image_data"
    /\ \/ called'[2].len # display_width * display_height * 2
       \/ called'[2] = image_data

\* C21: set_image with a bitmap of the wrong length for the current orientation,
\* or with the content already stored, is ignored: the stored bitmap and the
\* pending flag stay as they are, no listener is notified and no image send is
\* scheduled.
C21_SetImageIgnored ==
    [][SetImageRefused =>
        /\ UNCHANGED <<image_data, image_update_pending, ready>>
        /\ ~notified']_vars

C21_Witness ==
    /\ called # <<>>
    /\ called[1] = "image_data"
    /\ called[2] = image_data
    /\ ~notified
    /\ ~image_update_pending
    /\ setup_pc = "done"

(***************************************************************************)
(* Properties of the pixel codec (SpecCodec)                               *)
(***************************************************************************)
\* C22: the encoder's pixel order is fixed by the orientation code: for 0x01
\* rows top to bottom and columns left to right within a row, for 0x02 columns
\* from the last to the first and rows top to bottom within a column.  The
\* pixel at (x, y) is at byte offset 2 * (y * width + x) for 0x01 and at
\* 2 * ((width - 1 - x) * height + y) for 0x02.
C22_PixelOrder ==
    codec_pc = "encoded" =>
        /\ Len(codec_out) = 2 * codec_img.width * codec_img.height
        /\ \A xy \in Coords(codec_img.width, codec_img.height) :
            LET x == xy[1]
                y == xy[2]
                width == codec_img.width
                height == codec_img.height
                offset == IF codec_o = 1
                          THEN 2 * (y * width + x)
                          ELSE 2 * ((width - 1 - x) * height + y)
            IN  <<codec_out[offset + 1], codec_out[offset + 2]>>
                    = rgb565_pair(codec_img.pixels[xy])

\* a frame of 2 x 1 with two colours, encoded for 0x02: the right pixel first
C22_Witness ==
    /\ codec_pc = "encoded"
    /\ codec_o = 2
    /\ codec_size = <<2, 1>>
    /\ codec_img.pixels[<<0, 0>>] = <<255, 0, 0>>
    /\ codec_img.pixels[<<1, 0>>] = <<8, 132, 80>>
    /\ codec_out = <<12, 42, 248, 0>>

C24_RoundTrip ==
    codec_pc = "reencoded" =>
        /\ codec_out = codec_data
        /\ \A k \in 1..(codec_size[1] * codec_size[2]) :
            codec_img.pixels[encode_scan(codec_size[1], codec_size[2], codec_o)[k]]
                = rgb888(pair_color(codec_data, 2 * (k - 1)))

\* a buffer of 2 x 1 for 0x02: its first pixel is decoded to the right
C24_Witness ==
    /\ codec_pc = "reencoded"
    /\ codec_o = 2
    /\ codec_size = <<2, 1>>
    /\ codec_data = <<12, 42, 248, 0>>
    /\ codec_img.pixels[<<1, 0>>] = <<8, 133, 82>>
    /\ codec_out = codec_data

(***************************************************************************)
(* Properties of the chunks of a transmission (Spec)                       *)
(***************************************************************************)
\* the packets on the wire that are the 27th chunk of a transmission
LastChunks == {k \in 1..Len(usb_wire) : usb_wire[k].header[2] = 163 /\ usb_wire[k].header[4] = 27}

\* C25 as stated: for the 108800-byte bitmap of a 320 x 170 frame, the last of
\* the 27 chunks carries 108800 - 26 * 4096 = 4864 bytes of bitmap.
C25_LastChunk4864 ==
    \A k \in LastChunks :
        /\ usb_wire[k].from + usb_wire[k].n = 108800
        /\ usb_wire[k].n = 4864

\* C25 as amended: the last of the 27 chunks starts at offset 26 * 4096 =
\* 106496 and carries the 108800 - 106496 = 2304 bytes that are left, followed
\* by 4096 - 2304 = 1792 bytes of padding.
C25_LastChunk ==
    \A k \in LastChunks :
        /\ usb_wire[k].from = 26 * chunk_size
        /\ usb_wire[k].from + usb_wire[k].n = 108800
        /\ usb_wire[k].n = 2304
        /\ usb_wire[k].pad = 1792

C25_Witness ==
    /\ Len(usb_wire) = 27
    /\ usb_wire[27].header[3] = 242
    /\ usb_wire[27].header[4] = 27
    /\ usb_wire[27].n = 2304
    /\ usb_wire[26].n = chunk_size

(***************************************************************************)
(* Properties of the text elements and of the render (SpecText)            *)
(***************************************************************************)
\* the latest step was a call of add_text whose entity key the collection held
AddOfExistingKey ==
    /\ called' # <<>>
    /\ called'[1] = "add_text"
    /\ \E k \in 1..Len(text_elements) : text_elements[k].entity_id = called'[3]

\* the step called _update_display_image(): the frame was rendered again and an
\* image send created
Rerendered ==
    /\ image_update_pending'
    /\ ~image_needs_update'
    /\ Len(ready') = Len(ready) + 1

\* C26: adding a text element whose entity key already exists fails: the call
\* reports failure, the existing element keeps every field, the collection is
\* unchanged and no re-render is triggered.
C26_DuplicateAddFails ==
    [][AddOfExistingKey =>
        /\ text_result' \in {"exists", "failed"}
        /\ text_elements' = text_elements
        /\ ~Rerendered
        /\ UNCHANGED <<rendered, image_data, image_update_pending, image_needs_update, ready>>]_vars

\* an add for the key of an element that has another prefix has been refused
C26_Witness ==
    /\ called # <<>>
    /\ called[1] = "add_text"
    /\ text_result = "exists"
    /\ \E k \in 1..Len(text_elements) :
          /\ text_elements[k].entity_id = called[3]
          /\ text_elements[k].prefix # called[2].prefix
          /\ text_elements[k].format # called[2].format

\* the static elements of the collection as the step leaves it, by position
StaticElements == {k \in 1..Len(text_elements') : text_elements'[k].is_static}

\* C27: a static text element is always rendered with its stored string,
\* whatever the value table holds for its key: the string drawn is prefix +
\* format(static string) + suffix (for a format that applies to a string).
C27_StaticText ==
    [][Rerendered =>
        \A k \in StaticElements :
            LET element == text_elements'[k]
            IN  \E j \in 1..Len(rendered') :
                    /\ rendered'[j].entity_id = element.entity_id
                    /\ <<rendered'[j].x, rendered'[j].y>> = <<element.x, element.y>>
                    /\ ~format_raises(element.format) =>
                            rendered'[j].text =
                                element.prefix
                                    \o format_value(element.format, element.static_value)
                                    \o element.suffix]_vars

\* the table holds "N/A" for the key of the static text "Hi", and "Hi" is drawn
C27_Witness ==
    \E k \in 1..Len(text_elements), j \in 1..Len(rendered) :
        /\ text_elements[k].is_static
        /\ text_elements[k].static_value = <<"Hi">>
        /\ text_elements[k].entity_id \in DOMAIN sensor_values
        /\ sensor_values[text_elements[k].entity_id] = NA
        /\ rendered[j].entity_id = text_elements[k].entity_id
        /\ rendered[j].text = <<"Hi">>
        /\ rendered[j].drawn

\* the place of a key in the collection as the step leaves it
PlaceOf(key) == CHOOSE k \in 1..Len(text_elements') : text_elements'[k].entity_id = key

\* the calls that end with _update_display_image()
RenderAsked ==
    text_result' \in {"added", "updated", "cleared", "value", "rendered", "values"}

\* C28: in a render an element whose key has no recorded value is left out and
\* every other element is still processed, in collection order; the render
\* always gives an image and does not fail because of a missing value or of an
\* error in drawing or formatting one element.
C28_RenderSkipsMissing ==
    [][n_text' # n_text /\ RenderAsked =>
        /\ Rerendered
        /\ \A j \in 1..Len(rendered') : rendered'[j].entity_id \in DOMAIN sensor_values'
        /\ \A k \in 1..Len(text_elements') :
              LET element == text_elements'[k]
              IN  (/\ element.entity_id \in DOMAIN sensor_values'
                   /\ get_text(element, sensor_values'[element.entity_id]) # <<>>)
                    => \E j \in 1..Len(rendered') :
                          /\ rendered'[j].entity_id = element.entity_id
                          /\ rendered'[j].text =
                                get_text(element, sensor_values'[element.entity_id])
        /\ \A i, j \in 1..Len(rendered') :
              i < j => PlaceOf(rendered'[i].entity_id) < PlaceOf(rendered'[j].entity_id)]_vars

\* the first element has no value and is left out, the second is drawn
C28_Witness ==
    /\ text_result = "rendered"
    /\ Len(text_elements) = 2
    /\ text_elements[1].entity_id \notin DOMAIN sensor_values
    /\ Len(rendered) = 1
    /\ rendered[1].entity_id = text_elements[2].entity_id
    /\ rendered[1].drawn
    /\ image_update_pending
    /\ scene = 1

\* the names under which the five setters of the coordinator note their calls
SetterNames == {"theme", "intensity", "speed", "orientation", "image_data"}

\* the step was a call of a setter
SetterCalled == called' # <<>> /\ called'[1] \in SetterNames

\* the step stored a new value in the attribute a setter guards
SettingChanged ==
    <<theme, intensity, speed, orientation>>' # <<theme, intensity, speed, orientation>>
        \/ (SetterCalled /\ image_data' # image_data)

\* the step was a sensor or text-element update, which renders the frame again
RerenderRequested ==
    called' # <<>> /\ called'[1] \in {"update_sensor_state", "text_service"}

\* the step was the successful end of an image transmission
ImageSent ==
    /\ usb_cmd' = <<"_send_image_packet">>
    /\ \E t \in InFlight : t.i >= t.image.len /\ t \notin InFlight'

\* C29 as it is stated: every successful state mutation (a changed theme,
\* intensity, speed, orientation or bitmap), every re-render caused by a sensor
\* or text-element update and every completed image transmission notifies the
\* registered listeners.
C29_NotifiesAfterEveryChange ==
    [][(SettingChanged \/ RerenderRequested \/ ImageSent) => notified']_vars

\* C29, amended: the listeners are notified by exactly the steps in which a
\* setter (theme, intensity, speed, orientation, set_image) stored a new value;
\* a re-render caused by a sensor or text-element update, the completion of an
\* image transmission and every other step notify nobody.
C29_SettersNotify ==
    [][notified' <=> (SetterCalled /\ SettingChanged)]_vars

C29_Witness ==
    /\ notified
    /\ called # <<>>
    /\ called[1] = "intensity"
    /\ intensity = called[2]

\* the step was a remove_text call
RemoveCalled == called' # <<>> /\ called'[1] = "remove_text"

\* the places of the collection that hold the key of the call
PlacesOfKey == {k \in 1..Len(text_elements) : text_elements[k].entity_id = called'[2]}

\* the collection without the places of the key, every other element as it was
\* and in its order
WithoutKey == SelectSeq(text_elements, LAMBDA e : e.entity_id # called'[2])

\* C30: remove_text_element on an existing key removes exactly that element
\* from the collection, leaves all other elements unchanged and triggers a
\* re-render; on a missing key it reports not-found and changes nothing.
C30_RemoveText ==
    [][RemoveCalled =>
        IF PlacesOfKey # {}
        THEN /\ text_elements' = WithoutKey
             /\ Rerendered
        ELSE /\ text_result' = "not_found"
             /\ text_elements' = text_elements
             /\ ~Rerendered]_vars

\* the step was the orientation setter storing a new value
OrientationStored ==
    called' # <<>> /\ called'[1] = "orientation" /\ orientation' # orientation

\* the step was a restart of the host
Restarted == called' = <<"restart">>

\* C31: the orientation survives a restart: a setter call that stores the code
\* v and whose save succeeds leaves v in the file, a new session that finds the
\* code of the old session in the file starts with it, and a new session that
\* finds a value other than the two codes starts with the default orientation.
C31_OrientationSurvives ==
    [][/\ (OrientationStored /\ writable) =>
            /\ orientation' \in {PORTRAIT, LANDSCAPE}
            /\ config_file' = to_dict(orientation')
       /\ (Restarted /\ config_file = to_dict(orientation)) =>
            orientation' = orientation
       /\ (Restarted /\ Len(config_file) = 2 /\ config_file[2] \notin {PORTRAIT, LANDSCAPE}) =>
            orientation' = DEFAULT_ORIENTATION]_vars

\* a session started with the landscape code that an earlier session, begun
\* with another orientation, has saved
C31_Witness ==
    /\ called = <<"restart">>
    /\ n_upd > 0
    /\ config_file = to_dict(LANDSCAPE)
    /\ orientation = LANDSCAPE

\* the frame code of the packet written for byte offset i of the bitmap
WrittenFrameCode(i) == um_wire[(i \div chunk_size) + 1][3]

\* C32: a bitmap of 1..4096 bytes is sent as a single chunk with frame code
\* 0xF0; a bitmap of no bytes produces no packet and the send over a connected
\* transport reports success; every packet of offset 0 has frame code 0xF0, and
\* a packet of another offset has 0xF2 exactly at offset
\* (ceil(L/4096) - 1) * 4096, else 0xF1.
C32_SingleChunk ==
    um_last = "image" =>
        LET L == Len(um_image)
        IN  /\ (L \in 1..chunk_size /\ um_ret = "true") =>
                /\ Len(um_wire) = 1
                /\ um_wire[1][3] = 240
                /\ um_wire[1][4] = 1
            /\ L \in 1..chunk_size =>
                \A k \in 1..Len(um_wire) : um_wire[k][3] # 242
            /\ L = 0 =>
                /\ um_wire = <<>>
                /\ um_call = "none" => (um_ret = "true" <=> (um_connected /\ um_device))
            /\ \A k \in 1..Len(um_wire) :
                LET i == (k - 1) * chunk_size
                IN  WrittenFrameCode(i) =
                        IF i = 0 THEN 240
                        ELSE IF i = (CeilChunks(L) - 1) * chunk_size THEN 242
                        ELSE 241

\* a whole bitmap of exactly one chunk has been sent
C32_Witness ==
    /\ um_last = "image"
    /\ um_ret = "true"
    /\ Len(um_image) = chunk_size
    /\ Len(um_wire) = 1
    /\ um_wire[1][3] = 240

\* the step was an iteration of send_image_packet whose write failed: the
\* transmission had chunks left and is over after the step
ChunkWriteFailed ==
    /\ \E t \in InFlight : t.i < t.image.len
    /\ InFlight' = {}

\* the step of an orientation or image task gave a packet to the transport
UsbTaskWrote ==
    /\ usb_cmd' # <<>>
    /\ usb_cmd'[1] \in {"_send_orientation_packet", "_send_image_packet"}
    /\ \E k \in 1..Len(usb_cmd') : usb_cmd'[k] \in {"orientation", "chunk"}

\* C33: when a USB write fails during an image transmission the transport is
\* marked disconnected, the step ends the transmission (no further chunk of it
\* is written, the device's frame is as it was), the failure leaves the pending-update flag
\* set and the in-flight flag is cleared; while the transport is disconnected an
\* orientation or image send writes only after a connect attempt of its own.
C33_WriteFailure ==
    [][/\ ChunkWriteFailed =>
            /\ ~um_connected'
            /\ usb_wire' = <<>>
            /\ device_image' = device_image
            /\ image_update_pending'
            /\ ~is_sending_image'
       /\ (~um_connected /\ usb_cmd' # <<>>
            /\ usb_cmd'[1] \in {"_send_orientation_packet", "_send_image_packet"}) =>
            /\ usb_cmd' # <<"_send_image_packet", "chunk">>
            /\ UsbTaskWrote => (Len(usb_cmd') > 2 /\ usb_cmd'[2] = "connect")
       /\ (~um_connected /\ ~is_sending_image /\ image_update_pending
            /\ usb_cmd' # <<>> /\ usb_cmd'[1] = "_send_image_packet") =>
            usb_cmd' = <<"_send_image_packet", "connect">>]_vars

\* a transmission has just been ended by a failed write, after at least one
\* connect that started the keepalive loop
C33_Witness ==
    /\ usb_cmd = <<"_send_image_packet", "chunk">>
    /\ ~um_connected
    /\ image_update_pending
    /\ ~is_sending_image
    /\ keepalive_task
    /\ InFlight = {}

\* C34: the two encoders agree: for every RGB frame and both orientation codes
\* 0x01 and 0x02, pil_image_to_rgb565 and _format_image_for_device return the
\* same bytes, so set_pixel and fill_image / _update_display_image use the same
\* scan order for the same code.
C34_EncodersAgree ==
    codec_pc = "formatted" =>
        /\ codec_o \in {1, 2}
        /\ Len(codec_fmt) = 2 * codec_img.width * codec_img.height
        /\ codec_fmt = codec_out

\* a frame of 2 x 2 with pixels of two colours encoded by both for 0x02
C34_Witness ==
    /\ codec_pc = "formatted"
    /\ codec_o = 2
    /\ codec_size = <<2, 2>>
    /\ codec_img.pixels[<<0, 0>>] # codec_img.pixels[<<1, 0>>]
    /\ codec_fmt = codec_out
    /\ codec_fmt # <<>>

\* the keepalive tasks that exist and have not been cancelled: created and not
\* yet started, asleep, or holding the loop
LiveKeepalives ==
    {k \in 1..Len(ready) : ready[k].kind = "keepalive" /\ ready[k].pc # "cancelled"}
        \cup {t \in waiting \cup {running} : t.kind = "keepalive"}

\* C35: whenever the USB transport is marked connected, exactly one keepalive
\* task exists and is running; reconnects and concurrent orientation and image
\* sends never make a second one, and a connect made after the task has ended
\* (for example after shutdown) starts a new one.  (The states between the
\* cancel() of async_shutdown and its release of the transport are left out of
\* the first part; a connect made there is not.)
C35_OneKeepalive ==
    [][/\ Cardinality(LiveKeepalives') <= 1
       /\ (um_connected' /\ shutdown_pc' # "cancel") => Cardinality(LiveKeepalives') = 1
       /\ (~um_connected /\ um_connected') => Cardinality(LiveKeepalives') = 1]_vars

\* the step was the first or only step of a _send_image_packet task
SendTaskStarted ==
    /\ ready # <<>>
    /\ Head(ready).kind = "image"
    /\ ready' # ready
    /\ usb_cmd' # <<>>
    /\ usb_cmd'[1] = "_send_image_packet"

\* the step began a transmission
TransmissionBegun == InFlight = {} /\ InFlight' # {}

\* the step ended the run of a send task that had found an update pending
SendTaskEnded ==
    \/ \E t \in InFlight : InFlight' = {}
    \/ SendTaskStarted /\ ~is_sending_image /\ image_update_pending /\ InFlight' = {}

\* C36 as it is stated: the send task that finds the update pending transmits
\* the latest stored bitmap and clears the pending flag, so that every other
\* queued send task finds nothing pending, writes nothing and attempts no
\* connect; no bitmap is transmitted while the pending flag is clear.
C36_EachBitmapOnce ==
    [][/\ TransmissionBegun =>
            /\ image_update_pending
            /\ \A t \in InFlight' : t.image = image_data /\ t.i = 0
       /\ SendTaskEnded => ~image_update_pending'
       /\ (SendTaskStarted /\ ~image_update_pending) =>
            /\ usb_cmd' = <<"_send_image_packet">>
            /\ InFlight' = {}
            /\ UNCHANGED <<um_connected, um_device, usb_wire, device_image, keepalive_task>>
       /\ (usb_cmd' = <<"_send_image_packet", "chunk">>) => image_update_pending]_vars

\* C36, amended: a send task that finds the update pending transmits the latest
\* stored bitmap and, if the transmission succeeds, clears the pending flag; if
\* the connect or a write fails the flag stays set (and the next queued send
\* task sends again).  A queued send task that finds nothing pending writes
\* nothing and attempts no connect; no bitmap is transmitted while the pending
\* flag is clear, and none is transmitted again after a successful send until
\* an update sets the flag.
C36_CoalescedSends ==
    [][/\ TransmissionBegun =>
            /\ image_update_pending
            /\ \A t \in InFlight' : t.image = image_data /\ t.i = 0
       /\ ImageSent => ~image_update_pending'
       /\ (SendTaskEnded /\ ~ImageSent) => image_update_pending'
       /\ (SendTaskStarted /\ ~image_update_pending) =>
            /\ usb_cmd' = <<"_send_image_packet">>
            /\ InFlight' = {}
            /\ UNCHANGED <<um_connected, um_device, usb_wire, device_image, keepalive_task>>
       /\ (usb_cmd' = <<"_send_image_packet", "chunk">>) => image_update_pending]_vars

\* the last of the send tasks queued at start-up has found nothing pending: the
\* frame is on the device and the queue is empty
C36_Witness ==
    /\ usb_cmd = <<"_send_image_packet">>
    /\ ~image_update_pending
    /\ device_image # NoBitmap
    /\ ready = <<>>
    /\ InFlight = {}
    /\ n_upd = 0

\* the control tasks that have given their packet to the writer and await a
\* drain
WroteOnce == {t \in waiting : t.kind = "control" /\ t.pc \in {"drain_in_setup", "drain"}}

\* C37: one control-packet send request writes the control packet to serial at
\* most once, also when the request has to establish the serial connection
\* first: the step of a task that has written its packet writes no packet.
C37_WritesOnce ==
    [][\A t \in WroteOnce : t \notin waiting' => serial_wire' = <<>>]_vars

\* a chunk of a bitmap has been written in the transmission in flight
ChunkOnWire == \E k \in 1..Len(usb_wire) : usb_wire[k].header[2] = 163

\* C38: after an orientation change the orientation packet with the new code is
\* written to USB before the first chunk of the bitmap re-rendered for the new
\* orientation: the device receives no chunk while the code of the latest change
\* has not been written to it.
C38_CodeBeforeBitmap == ChunkOnWire => orientation_owed = 0

\* a step of send_image_packet's loop that writes a packet, and the entry of a
\* call into the loop
ChunkWritten == um_last' = "image" /\ Len(um_wire') > Len(um_wire)
LoopEntered == um_call = "none" /\ um_call' = "image"

\* C39: within one image transmission the chunk packets are written with the
\* chunk indexes 1, 2, ..., N in order, without gap or repeat, and every
\* transmission, also one that follows a failed one, begins again with chunk 1
\* and frame code 0xF0 instead of resuming where the earlier one stopped.
C39_ChunkOrder ==
    [][/\ LoopEntered => (um_i' = 0 /\ um_wire' = <<>>)
       /\ ChunkWritten =>
            /\ um_call = "image"
            /\ um_wire' = Append(um_wire, um_wire'[Len(um_wire')])
            /\ um_wire'[Len(um_wire')][4] = Len(um_wire')
            /\ um_i' = Len(um_wire') * chunk_size
            /\ Len(um_wire') = 1 => um_wire'[1][3] = 240]_vars

C39_Witness ==
    /\ um_call = "image"
    /\ um_left_at = chunk_size
    /\ um_left_at < Len(um_image)
    /\ Len(um_wire) = 1
    /\ um_wire[1][4] = 1
    /\ um_wire[1][3] = 240

\* clear_all_text has been called
ClearCalled == called' = <<"clear_all_text">>

\* C40: whatever the add_text, update_text and clear_all_text services, the load
\* of the configuration and the sensor value updates have done, every static
\* element of the collection has an entry in the value table, so that no render
\* leaves a static element out; clear_all_text_elements empties the collection
\* and the value table in the same call.
C40_StaticHaveValues ==
    /\ \A k \in 1..Len(text_elements) :
          text_elements[k].is_static => text_elements[k].entity_id \in DOMAIN sensor_values
    /\ [][/\ Rerendered =>
                \A k \in StaticElements :
                    \E j \in 1..Len(rendered') :
                        rendered'[j].entity_id = text_elements'[k].entity_id
          /\ ClearCalled => (text_elements' = <<>> /\ DOMAIN sensor_values' = {})]_vars

\* a static text loaded from the file and one added by the service, both with a
\* value and both rendered
C40_Witness ==
    /\ called # <<>> /\ called[1] = "add_text"
    /\ text_result = "added"
    /\ \E k, m \in 1..Len(text_elements) :
          /\ k < m
          /\ text_elements[k].is_static /\ text_elements[k].static_value = <<"Hi">>
          /\ text_elements[m].is_static /\ text_elements[m].static_value = <<"Yo">>
          /\ {text_elements[k].entity_id, text_elements[m].entity_id} \subseteq DOMAIN sensor_values
          /\ \E i, j \in 1..Len(rendered) :
                /\ rendered[i].entity_id = text_elements[k].entity_id
                /\ rendered[j].entity_id = text_elements[m].entity_id

=============================================================================
